---- MODULE Spec2Model ----
(***************************************************************************)
(* Model of the recommendation pipelines of trot-system-v8.                *)
(*                                                                         *)
(*   pipeline = "v8"  : app_v8.py, TrotOrchestrator.process_race behind    *)
(*                      api_race (local BetOptimizer + Gemini + arbiter).  *)
(*   pipeline = "app" : app.py, analyze_race (Gemini only, checked by      *)
(*                      ai/response_validator.py).                         *)
(*                                                                         *)
(* Money is counted in cents and expected returns (ROI) in tenths, so the  *)
(* float arithmetic of the source becomes exact integer arithmetic:        *)
(* round(x, 2) is rounding of an exact quotient to the nearest cent (ties  *)
(* to even), and  g > p * 1.1  is  10 * g > 11 * p.                        *)
(***************************************************************************)
EXTENDS Integers, Sequences, FiniteSets, TLC

\* ------------------------------------------------------------------------
\* Bounds of the model
\* ------------------------------------------------------------------------
MaxRunners == 5
MaxBets == 2

\* ------------------------------------------------------------------------
\* Program constants
\* ------------------------------------------------------------------------
TOLERANCE == 50
BUDGET_MAX_INITIAL == 2000
KILL_SWITCH_V8 == 6
KILL_SWITCH_RV == 4
MAX_ATTEMPTS == 3
SCORE_CADENAS == 85
SCORE_COMPETITIVE == 70
MIN_PLAYABLE == 500

VALID_BET_TYPES ==
    {"SIMPLE_GAGNANT", "SIMPLE_PLACE", "COUPLE_GAGNANT", "COUPLE_PLACE",
     "TRIO", "MULTI_EN_4", "MULTI_EN_5", "DEUX_SUR_QUATRE"}

valid_scenarios == {"CADENAS", "BATAILLE", "SURPRISE", "PIEGE", "NON_JOUABLE"}

\* models/bet.py BetRecommendation.validate: runners required per bet type
expected_lengths(t) ==
    CASE t \in {"SIMPLE_GAGNANT", "SIMPLE_PLACE"} -> 1
      [] t \in {"COUPLE_GAGNANT", "COUPLE_PLACE"} -> 2
      [] t = "TRIO" -> 3
      [] t \in {"MULTI_EN_4", "DEUX_SUR_QUATRE"} -> 4
      [] t = "MULTI_EN_5" -> 5
      [] OTHER -> 0

\* ------------------------------------------------------------------------
\* JSON values as the Python code sees them.  k is the Python type of the
\* value: "num" (int/float, n holds it), "str" (a string), "absent" (key
\* missing from the dict).
\* ------------------------------------------------------------------------
Num(n) == [k |-> "num", n |-> n]
Str == [k |-> "str", n |-> 0]
Absent == [k |-> "absent", n |-> 0]

\* dict.get(key, default) on a numeric field
Get(v, default) == IF v.k = "absent" THEN Num(default) ELSE v

\* a "chevaux" value: a list of JSON values, a bare number, or absent
ChList(l) == [k |-> "list", l |-> l]
ChNum == [k |-> "num", l |-> <<>>]
ChAbsent == [k |-> "absent", l |-> <<>>]

NumList(s) == ChList([i \in 1..Len(s) |-> Num(s[i])])

\* One element of paris_recommandes / bets_recommended.  obj is FALSE for
\* an element that is not a JSON object.  Gemini dicts carry mise and
\* roi_attendu, dicts made by bet_to_dict carry cost and roi_expected.
GeminiBet(t, ch, m, r) ==
    [obj |-> TRUE, type |-> t, chevaux |-> ch, mise |-> m, roi_attendu |-> r,
     cost |-> Absent, roi_expected |-> Absent]

NotAnObject ==
    [obj |-> FALSE, type |-> "", chevaux |-> ChAbsent, mise |-> Absent,
     roi_attendu |-> Absent, cost |-> Absent, roi_expected |-> Absent]

\* app_v8.py bet_to_dict, dataclass branch
bet_to_dict(b) ==
    [obj |-> TRUE, type |-> b.type, chevaux |-> NumList(b.chevaux),
     mise |-> Absent, roi_attendu |-> Absent,
     cost |-> Num(b.cost), roi_expected |-> Num(b.roi_expected)]

\* ------------------------------------------------------------------------
\* Generic helpers
\* ------------------------------------------------------------------------
RECURSIVE SumSeq(_)
SumSeq(s) == IF s = <<>> THEN 0 ELSE Head(s) + SumSeq(Tail(s))

Prefix(s, n) == IF Len(s) <= n THEN s ELSE SubSeq(s, 1, n)

\* Python round(num/den, 0) on an exact quotient, den > 0: nearest, ties to even
RoundDiv(num, den) ==
    LET q == num \div den
        r2 == 2 * (num % den)
    IN IF r2 < den THEN q
       ELSE IF r2 > den THEN q + 1
       ELSE IF q % 2 = 0 THEN q ELSE q + 1

\* ------------------------------------------------------------------------
\* Local generator: app_v8.py BetOptimizer
\* A runner (HorseAnalysis) is [numero, score, vb, edge]: score.total,
\* value_bet.is_value_bet and value_bet.edge (in thousandths).
\* A BetRecommendation dataclass is [type, chevaux, cost, roi_expected].
\* ------------------------------------------------------------------------
BetRecommendation(t, ch, c, r) ==
    [type |-> t, chevaux |-> ch, cost |-> c, roi_expected |-> r]

Numeros(as) == [i \in 1..Len(as) |-> as[i].numero]

IsRunnerIn(a, as) == \E i \in 1..Len(as) : as[i] = a

_strategy_cadenas(analyses) ==
    LET favori == analyses[1]
        simple == <<BetRecommendation("SIMPLE_GAGNANT", <<favori.numero>>, 150, 25)>>
        couple == IF Len(analyses) >= 2
                  THEN <<BetRecommendation("COUPLE_GAGNANT",
                             <<favori.numero, analyses[2].numero>>, 150, 30)>>
                  ELSE <<>>
        multi == IF Len(analyses) >= 4
                 THEN <<BetRecommendation("MULTI_EN_4",
                            Numeros(Prefix(analyses, 4)), 300, 20)>>
                 ELSE <<>>
    IN simple \o couple \o multi

_strategy_bataille(analyses) ==
    LET Competitive(a) == a.score >= SCORE_COMPETITIVE
        top5 == Prefix(SelectSeq(analyses, Competitive), 5)
    IN IF Len(top5) >= 5
       THEN <<BetRecommendation("MULTI_EN_5", Numeros(top5), 300, 40),
              BetRecommendation("DEUX_SUR_QUATRE", Numeros(top5), 3000, 35)>>
       ELSE <<>>

\* sorted(value_bets, key=edge, reverse=True)[0]: first runner of maximal edge
RECURSIVE BestByEdge(_)
BestByEdge(vbs) ==
    IF Len(vbs) = 1 THEN vbs[1]
    ELSE LET rest == BestByEdge(Tail(vbs))
         IN IF rest.edge > Head(vbs).edge THEN rest ELSE Head(vbs)

_strategy_surprise(value_bets, all_analyses) ==
    LET best_vb == BestByEdge(value_bets)
        top3 == Prefix(all_analyses, 3)
        multi_chevaux == IF ~IsRunnerIn(best_vb, top3)
                         THEN <<best_vb>> \o top3
                         ELSE Prefix(top3, 4)
    IN <<BetRecommendation("SIMPLE_GAGNANT", <<best_vb.numero>>, 150, 50),
         BetRecommendation("MULTI_EN_4", Numeros(multi_chevaux), 300, 30)>>

_strategy_default(analyses) ==
    LET top == Prefix(analyses, 3)
    IN [i \in 1..Len(top) |->
          BetRecommendation("SIMPLE_GAGNANT", <<top[i].numero>>, 150, 15 + (i - 1) * 5)]

\* key of _optimize_budget: roi_expected / cost, compared without division
BetterRatio(a, b) == a.roi_expected * b.cost > b.roi_expected * a.cost

\* sorted(..., reverse=True) is stable: x goes after every bet whose ratio is
\* not smaller
RECURSIVE InsertByRatio(_, _)
InsertByRatio(x, sorted) ==
    IF sorted = <<>> THEN <<x>>
    ELSE IF BetterRatio(x, Head(sorted)) THEN <<x>> \o sorted
    ELSE <<Head(sorted)>> \o InsertByRatio(x, Tail(sorted))

RECURSIVE SortByRatio(_)
SortByRatio(bets) ==
    IF bets = <<>> THEN <<>>
    ELSE InsertByRatio(bets[Len(bets)], SortByRatio(SubSeq(bets, 1, Len(bets) - 1)))

RoiExpected(bets) == [i \in 1..Len(bets) |-> bets[i].roi_expected]

\* a loop that only tests the budget spent so far, not the bet it adds
Fits_SpentOnly(total_cost, bet, budget_max) == total_cost <= budget_max

\* the loop of _optimize_budget: a bet is taken whole when it still fits
Fits(total_cost, bet, budget_max) == total_cost + bet.cost <= budget_max

RECURSIVE Select(_, _, _)
Select(bets_sorted, total_cost, budget_max) ==
    IF bets_sorted = <<>> THEN <<>>
    ELSE LET bet == Head(bets_sorted)
         IN IF Fits(total_cost, bet, budget_max)
            THEN <<bet>> \o Select(Tail(bets_sorted), total_cost + bet.cost, budget_max)
            ELSE Select(Tail(bets_sorted), total_cost, budget_max)

_optimize_budget(bets, budget_max) == Select(SortByRatio(bets), 0, budget_max)

\* the candidate bets of the strategy generate_bets chooses
Candidates(analyses) ==
    LET top_score == IF analyses # <<>> THEN analyses[1].score ELSE 0
        Competitive(a) == a.score >= SCORE_COMPETITIVE
        count_70_plus == Len(SelectSeq(analyses, Competitive))
        IsValue(a) == a.vb /\ a.score >= SCORE_COMPETITIVE
        value_bets == SelectSeq(analyses, IsValue)
    IN IF top_score >= SCORE_CADENAS THEN _strategy_cadenas(analyses)
       ELSE IF count_70_plus >= 5 THEN _strategy_bataille(analyses)
       ELSE IF value_bets # <<>> THEN _strategy_surprise(value_bets, analyses)
       ELSE _strategy_default(analyses)

generate_bets(analyses, budget_max) == _optimize_budget(Candidates(analyses), budget_max)

\* ------------------------------------------------------------------------
\* frontend/app.py and backend/app.py generate_bets: fixed templates by
\* budget; a partant is [numero, score, ...], a bet a dict with 'mise'.
\* An IndexError on top_5[1] is caught and makes the function return [].
\* ------------------------------------------------------------------------
WebBet(t, ch, m, r) == GeminiBet(t, NumList(ch), Num(m), Num(r))

generate_bets_frontend(partants, budget) ==
    LET top_5 == Prefix(partants, 5)
        favori == WebBet("SIMPLE_GAGNANT", <<top_5[1].numero>>, 500, 25)
        outsider == WebBet("SIMPLE_PLACE", <<top_5[2].numero>>, 500, 15)
        couple == WebBet("COUPLE_PLACE", <<top_5[1].numero, top_5[2].numero>>, 1000, 30)
    IN IF top_5 = <<>> THEN <<>>
       ELSE IF budget >= 2000
       THEN IF Len(top_5) < 2 THEN <<>> ELSE <<favori, outsider, couple>>
       ELSE IF budget >= 1000
       THEN IF Len(top_5) < 2 THEN <<>> ELSE <<favori, outsider>>
       ELSE <<favori>>

\* p['cote'] in tenths: float(...get('rapportDirect', 0.0)) of a participant
\* served without a 'rapport'
Cote(p) == 0

\* cote * 0.7 and (cote / 3) * 0.8, in tenths, of that cote
RoiGagnant(p) == (Cote(p) * 7) \div 10
RoiPlace(p) == (Cote(p) * 8) \div 30

generate_bets_backend(partants, budget) ==
    LET top_5 == Prefix(partants, 5)
        excellent == SelectSeq(top_5, LAMBDA p : p.score >= 75)
        bon == SelectSeq(top_5, LAMBDA p : 60 <= p.score /\ p.score < 75)
        agressive ==
            <<WebBet("SIMPLE_GAGNANT", <<excellent[1].numero>>, 600, RoiGagnant(excellent[1])),
              WebBet("SIMPLE_PLACE", <<excellent[2].numero>>, 400, RoiPlace(excellent[2])),
              WebBet("COUPLE_ORDRE", <<excellent[1].numero, excellent[2].numero>>, 1000,
                     (Cote(excellent[1]) * Cote(excellent[2]) * 2) \div 100)>>
        equilibree ==
            <<WebBet("SIMPLE_GAGNANT", <<excellent[1].numero>>, 700, RoiGagnant(excellent[1])),
              WebBet("COUPLE_PLACE", <<excellent[1].numero, bon[1].numero>>, 800,
                     (Cote(excellent[1]) * Cote(bon[1])) \div 100),
              WebBet("TRIO_ORDRE", <<excellent[1].numero, bon[1].numero, bon[2].numero>>,
                     500, 350)>>
        conservatrice ==
            <<WebBet("SIMPLE_PLACE", <<top_5[1].numero>>, 800, RoiPlace(top_5[1])),
              WebBet("COUPLE_PLACE", <<top_5[1].numero, top_5[2].numero>>, 1200, 60)>>
        dix_favori ==
            <<WebBet("SIMPLE_GAGNANT", <<excellent[1].numero>>, 600, RoiGagnant(excellent[1])),
              WebBet("SIMPLE_PLACE", <<top_5[2].numero>>, 400, RoiPlace(top_5[2]))>>
        dix_place == <<WebBet("SIMPLE_PLACE", <<top_5[1].numero>>, 1000, RoiPlace(top_5[1]))>>
        cinq == <<WebBet(IF excellent = <<>> THEN "SIMPLE_PLACE" ELSE "SIMPLE_GAGNANT",
                         <<top_5[1].numero>>, 500,
                         IF excellent = <<>> THEN RoiPlace(top_5[1]) ELSE RoiGagnant(top_5[1]))>>
    IN IF partants = <<>> THEN <<>>
       ELSE IF budget >= 2000
       THEN IF Len(excellent) >= 2 THEN agressive
            ELSE IF Len(excellent) >= 1 /\ Len(bon) >= 2 THEN equilibree
            ELSE IF Len(top_5) < 2 THEN <<>> ELSE conservatrice
       ELSE IF budget >= 1000
       THEN IF Len(excellent) >= 1
            THEN IF Len(top_5) < 2 THEN <<>> ELSE dix_favori
            ELSE dix_place
       ELSE cinq

\* ------------------------------------------------------------------------
\* app_v8.py BudgetAnalyzer.  Points are counted in thousandths, the
\* quality score in tenths, edges in thousandths, money in cents.
\* The arguments of calculate_dynamic_budget are gathered in one record:
\*   scores         score.total of the runners, sorted, highest first
\*   confidence_ok  leader.score.confidence == "HIGH"
\*   missing_ok     len(leader.score.missing_data) == 0
\*   quality_score  quality["quality_score"]
\*   nb_vb, edge_sum  len(value_bets) and the sum of their edges
\*   dotation, prestige, etat_piste  montantPrix, hippodrome in
\*                  prestige_tracks, etatPiste of race_data
\* ------------------------------------------------------------------------
Min(a, b) == IF a <= b THEN a ELSE b
Max(a, b) == IF a >= b THEN a ELSE b

BudgetInput(sc, cok, mok, q, nvb, es, dot, pr, ep) ==
    [scores |-> sc, confidence_ok |-> cok, missing_ok |-> mok, quality_score |-> q,
     nb_vb |-> nvb, edge_sum |-> es, dotation |-> dot, prestige |-> pr, etat_piste |-> ep]

\* calculate_scenario_confidence
calculate_scenario_confidence(in) ==
    LET scores == in.scores
        gap_top2 == scores[1] - scores[2]
        gap_strong == gap_top2 >= 12
        nb_competitive == Cardinality({i \in 1..Len(scores) : 65 <= scores[i] /\ scores[i] <= 80})
        spread == scores[1] - scores[5]
    IN IF Len(scores) < 2 THEN [scenario |-> "NON_JOUABLE", confidence |-> "LOW"]
       ELSE IF scores[1] >= SCORE_CADENAS /\ gap_top2 >= 10
       THEN [scenario |-> "CADENAS",
             confidence |-> IF in.confidence_ok /\ in.missing_ok /\ gap_strong THEN "HIGH"
                            ELSE IF in.confidence_ok \/ gap_strong THEN "MEDIUM"
                            ELSE "LOW"]
       ELSE IF nb_competitive >= 5
       THEN [scenario |-> "BATAILLE",
             confidence |-> IF spread < 12 THEN "HIGH"
                            ELSE IF spread < 18 THEN "MEDIUM" ELSE "LOW"]
       ELSE [scenario |-> "SURPRISE", confidence |-> "MEDIUM"]

\* criterion 1: (quality_score / 100) * 6
quality_points(in) == in.quality_score * 6

\* criterion 2
discrimination_points(scores) ==
    LET gap_top2 == scores[1] - scores[2]
        base == IF gap_top2 >= 15 THEN 4000
                ELSE IF gap_top2 >= 10 THEN 3000
                ELSE IF gap_top2 >= 7 THEN 2000
                ELSE IF gap_top2 >= 5 THEN 1000
                ELSE 0
        bonus == IF Len(scores) >= 5 /\ scores[3] - scores[5] >= 10 THEN 500 ELSE 0
    IN IF Len(scores) >= 2 THEN base + bonus ELSE 0

\* criterion 3: scenario_matrix.get((scenario, confidence), 1.0)
scenario_points(s) ==
    CASE s.scenario = "CADENAS" /\ s.confidence = "HIGH" -> 4000
      [] s.scenario = "CADENAS" /\ s.confidence = "MEDIUM" -> 3000
      [] s.scenario = "CADENAS" /\ s.confidence = "LOW" -> 2000
      [] s.scenario = "BATAILLE" /\ s.confidence = "HIGH" -> 3000
      [] s.scenario = "BATAILLE" /\ s.confidence = "MEDIUM" -> 2000
      [] s.scenario = "BATAILLE" /\ s.confidence = "LOW" -> 1000
      [] s.scenario = "SURPRISE" /\ s.confidence = "HIGH" -> 3500
      [] s.scenario = "SURPRISE" /\ s.confidence = "MEDIUM" -> 2500
      [] s.scenario = "SURPRISE" /\ s.confidence = "LOW" -> 1500
      [] s.scenario = "NON_JOUABLE" /\ s.confidence = "LOW" -> 0
      [] OTHER -> 1000

\* criterion 4: avg_edge >= x is edge_sum >= x * nb_vb
vb_points(in) ==
    IF in.nb_vb = 0 THEN 0
    ELSE IF in.nb_vb >= 2 /\ in.edge_sum >= 150 * in.nb_vb THEN 3000
    ELSE IF in.edge_sum >= 150 * in.nb_vb THEN 2500
    ELSE IF in.nb_vb >= 2 /\ in.edge_sum >= 100 * in.nb_vb THEN 2000
    ELSE IF in.edge_sum >= 100 * in.nb_vb THEN 1500
    ELSE 500

\* criterion 5
level_points(in) ==
    LET base == IF in.dotation >= 100000 THEN 2000
                ELSE IF in.dotation >= 50000 THEN 1500
                ELSE IF in.dotation >= 30000 THEN 1000
                ELSE 500
    IN Min(base + (IF in.prestige THEN 300 ELSE 0), 2000)

\* criterion 6: etat_map.get(etat_piste, 0.3)
conditions_points(in) ==
    CASE in.etat_piste = "BON" -> 600
      [] in.etat_piste = "SOUPLE" -> 500
      [] in.etat_piste = "COLLANT" -> 400
      [] in.etat_piste = "LOURD" -> 200
      [] in.etat_piste \in {"TRES_LOURD", "TRES LOURD"} -> 0
      [] OTHER -> 300

\* criterion 7
partants_points(nb_partants) ==
    IF 10 <= nb_partants /\ nb_partants <= 14 THEN 400
    ELSE IF 8 <= nb_partants /\ nb_partants <= 16 THEN 300
    ELSE IF 6 <= nb_partants /\ nb_partants <= 18 THEN 200
    ELSE 0

total_points(in) ==
    quality_points(in) + discrimination_points(in.scores)
    + scenario_points(calculate_scenario_confidence(in)) + vb_points(in)
    + level_points(in) + conditions_points(in) + partants_points(Len(in.scores))

\* round(budget_raw * 2) / 2, in cents
RoundToHalf(points) == 50 * RoundDiv(2 * points, 1000)

\* the same amount without the clamp to [0, 20]
Clamp_None(amount) == amount

\* max(0, min(20, budget_recommended))
Clamp(amount) == Max(0, Min(BUDGET_MAX_INITIAL, amount))

confidence_label(budget_recommended) ==
    IF budget_recommended >= 1700 THEN "TRES_FORTE"
    ELSE IF budget_recommended >= 1300 THEN "FORTE"
    ELSE IF budget_recommended >= 900 THEN "MOYENNE"
    ELSE IF budget_recommended >= MIN_PLAYABLE THEN "FAIBLE"
    ELSE "TRES_FAIBLE"

calculate_dynamic_budget(in) ==
    LET budget_recommended == Clamp(RoundToHalf(total_points(in)))
    IN [budget_recommended |-> budget_recommended,
        confidence |-> confidence_label(budget_recommended),
        total_points |-> total_points(in),
        playable |-> budget_recommended >= MIN_PLAYABLE]

NoBudgetAnalysis ==
    [budget_recommended |-> 0, confidence |-> "", total_points |-> 0, playable |-> FALSE]

\* what process_race hands to the budget analysis: the race data of the
\* programme (montantPrix, hippodrome, etatPiste) and the data quality of the
\* scored field (quality_score, confidence and missing data of the leader)
RaceInfo(cok, mok, q, dot, pr, ep) ==
    [confidence_ok |-> cok, missing_ok |-> mok, quality_score |-> q,
     dotation |-> dot, prestige |-> pr, etat_piste |-> ep]

NoRaceInfo == RaceInfo(FALSE, FALSE, 0, 0, FALSE, "")

\* value_bets = [a for a in analyses if a.value_bet.is_value_bet]
AllValueBets(analyses) == SelectSeq(analyses, LAMBDA a : a.vb)

\* lines 2805-2826: the arguments of calculate_dynamic_budget
BudgetInputOf(analyses, info) ==
    LET value_bets == AllValueBets(analyses)
    IN BudgetInput([i \in 1..Len(analyses) |-> analyses[i].score],
                   info.confidence_ok, info.missing_ok, info.quality_score,
                   Len(value_bets),
                   SumSeq([i \in 1..Len(value_bets) |-> value_bets[i].edge]),
                   info.dotation, info.prestige, info.etat_piste)

\* ------------------------------------------------------------------------
\* app_v8.py GeminiBetValidator.validate_bets
\* The outcome of a check is "ok", "invalid" (return False, ...) or
\* "raise" (a Python exception leaves the function).
\* ------------------------------------------------------------------------
CheckTypeV8(bet) == IF bet.type \in VALID_BET_TYPES THEN "ok" ELSE "invalid"

\* isinstance(num, int) and 1 <= num <= nb_partants, for every num
ValidNumV8(v, nb_partants) == v.k = "num" /\ v.n >= 1 /\ v.n <= nb_partants

CheckChevauxV8(bet, nb_partants) ==
    LET chevaux == bet.chevaux
    IN IF chevaux.k = "absent" \/ (chevaux.k = "list" /\ chevaux.l = <<>>) THEN "invalid"
       ELSE IF chevaux.k = "num" THEN "raise"
       ELSE IF \A i \in 1..Len(chevaux.l) : ValidNumV8(chevaux.l[i], nb_partants)
            THEN "ok" ELSE "invalid"

CheckMiseV8(bet) ==
    LET mise == Get(bet.mise, 0)
    IN IF mise.k = "str" THEN "raise"
       ELSE IF mise.n <= 0 THEN "invalid"
       ELSE "ok"

CheckBetV8(bet, nb_partants) ==
    IF ~bet.obj THEN "raise"
    ELSE IF CheckTypeV8(bet) # "ok" THEN CheckTypeV8(bet)
    ELSE IF CheckChevauxV8(bet, nb_partants) # "ok" THEN CheckChevauxV8(bet, nb_partants)
    ELSE CheckMiseV8(bet)

\* total_cost > budget_max + 0.5
OverBudgetV8(total_cost, budget_max) == total_cost > budget_max + TOLERANCE

RECURSIVE ValidateLoopV8(_, _, _, _)
ValidateLoopV8(bets, total_cost, budget_max, nb_partants) ==
    IF bets = <<>>
    THEN IF OverBudgetV8(total_cost, budget_max) THEN "invalid" ELSE "ok"
    ELSE LET r == CheckBetV8(Head(bets), nb_partants)
         IN IF r # "ok" THEN r
            ELSE ValidateLoopV8(Tail(bets), total_cost + Head(bets).mise.n,
                                budget_max, nb_partants)

\* (is_valid, cleaned_bets) or an exception
validate_bets(bets, budget_max, nb_partants) ==
    LET r == ValidateLoopV8(bets, 0, budget_max, nb_partants)
    IN [raised |-> r = "raise", is_valid |-> r = "ok",
        cleaned_bets |-> IF r = "ok" THEN bets ELSE <<>>]

\* ------------------------------------------------------------------------
\* app_v8.py enforce_budget: reads the key 'mise' of every dict
\* ------------------------------------------------------------------------
MiseOrZero(bets) == [i \in 1..Len(bets) |-> Get(bets[i].mise, 0).n]

ScaleMise(mise, num, den) == RoundDiv(mise * num, den)

enforce_budget(bets, budget_max) ==
    LET total == SumSeq(MiseOrZero(bets))
    IN IF bets = <<>> THEN bets
       ELSE IF total > budget_max + TOLERANCE
       THEN [i \in 1..Len(bets) |->
               [bets[i] EXCEPT !.mise = Num(ScaleMise(bets[i].mise.n, budget_max, total))]]
       ELSE bets

\* ------------------------------------------------------------------------
\* The parsed model output (result_json) and the values of its key
\* paris_recommandes: a list of bets, a string, a number, or absent.
\* ------------------------------------------------------------------------
PList(l) == [k |-> "list", l |-> l]
PStr == [k |-> "str", l |-> <<>>]
PNum == [k |-> "num", l |-> <<>>]
PAbsent == [k |-> "absent", l |-> <<>>]
PNone == [k |-> "none", l |-> <<>>]

ResultJson(d, p, c, sc, bu) ==
    [dict |-> d, paris |-> p, conf |-> c, scenario |-> sc, budget_utilise |-> bu]

NoJson == ResultJson(FALSE, PAbsent, Absent, "", Absent)

\* ------------------------------------------------------------------------
\* app_v8.py process_race, lines 2920-2957: what the try block leaves in
\* gemini_bets and gemini_error once call_gemini_with_retry has returned.
\* ------------------------------------------------------------------------
\* result_json.get("paris_recommandes", [])
ExtractBets(json) == IF json.paris.k = "absent" THEN PList(<<>>) ELSE json.paris

\* confiance_globale < 6, on result_json.get("confiance_globale", 10)
KillSwitchV8(json) == Get(json.conf, 10).k = "num" /\ Get(json.conf, 10).n < KILL_SWITCH_V8

AfterCall(json) ==
    IF ~json.dict THEN [gemini_bets |-> PNone, gemini_error |-> "api"]
    ELSE IF json.paris.k = "num" THEN [gemini_bets |-> ExtractBets(json), gemini_error |-> "api"]
    ELSE IF Get(json.conf, 10).k = "str"
         THEN [gemini_bets |-> ExtractBets(json), gemini_error |-> "api"]
    ELSE IF KillSwitchV8(json)
         THEN [gemini_bets |-> ExtractBets(json), gemini_error |-> "kill_switch"]
    ELSE [gemini_bets |-> ExtractBets(json), gemini_error |-> "none"]

\* ------------------------------------------------------------------------
\* app_v8.py process_race, lines 2959-3009: strategy selection and budget lock
\* ------------------------------------------------------------------------
\* sum(b.get("roi_attendu", 0) for b in gemini_bets) raises on a string
RoiAttendu(bets) == [i \in 1..Len(bets) |-> Get(bets[i].roi_attendu, 0).n]
RoiRaises(bets) == \E i \in 1..Len(bets) : bets[i].roi_attendu.k = "str"

\* the comparison with >= in place of >: a set exactly at the margin wins
GeminiBetter_AtLeast(gemini_roi, python_roi) == 10 * gemini_roi >= 11 * python_roi

\* gemini_roi > python_roi * 1.1
GeminiBetter(gemini_roi, python_roi) == 10 * gemini_roi > 11 * python_roi

Outcome(r, st, b, gs, err) ==
    [raised |-> r, strategy_selected |-> st, bets_recommended |-> b,
     gemini_success |-> gs, gemini_error |-> err]

PythonDicts(python_bets) == [i \in 1..Len(python_bets) |-> bet_to_dict(python_bets[i])]

select_strategy(g_bets, g_error, python_bets, budget_recommended, nb_partants) ==
    LET python_roi == SumSeq(RoiExpected(python_bets))
        local == PythonDicts(python_bets)
        v == validate_bets(g_bets.l, budget_recommended, nb_partants)
    IN IF g_bets.k = "none" \/ (g_bets.k = "list" /\ g_bets.l = <<>>)
       THEN Outcome(FALSE, "python", local, FALSE, g_error)
       ELSE IF g_bets.k \in {"num", "str"}
       THEN Outcome(TRUE, "python", <<>>, FALSE, g_error)
       ELSE IF v.raised
       THEN Outcome(TRUE, "python", <<>>, FALSE, g_error)
       ELSE IF ~v.is_valid
       THEN Outcome(FALSE, "python", local, FALSE, "validation")
       ELSE IF RoiRaises(v.cleaned_bets)
       THEN Outcome(TRUE, "python", <<>>, TRUE, g_error)
       ELSE IF GeminiBetter(SumSeq(RoiAttendu(v.cleaned_bets)), python_roi)
       THEN Outcome(FALSE, "gemini", v.cleaned_bets, TRUE, g_error)
       ELSE Outcome(FALSE, "python", local, TRUE, g_error)

\* ------------------------------------------------------------------------
\* ai/response_validator.py ResponseValidator
\* ------------------------------------------------------------------------
\* _validate_structure: every required key is in the response
_validate_structure(json) ==
    json.dict /\ json.paris.k # "absent" /\ json.conf.k # "absent"
             /\ json.budget_utilise.k # "absent"

_validate_scenario(json) == json.scenario \in valid_scenarios

\* not response.get('paris_recommandes')
NoParis(json) == json.paris.k = "list" /\ json.paris.l = <<>>

\* budget_utilise > budget + tolerance, on the total the response reports
OverBudgetRV(budget_utilise, budget) == budget_utilise > budget + TOLERANCE

_validate_budget(json, budget) ==
    IF json.budget_utilise.k = "str" THEN "raise"
    ELSE IF OverBudgetRV(json.budget_utilise.n, budget) THEN "fail"
    ELSE IF json.scenario # "NON_JOUABLE" /\ NoParis(json) THEN "fail"
    ELSE "ok"

\* sum(p.get('mise', 0) for p in paris) and pari['mise'] raise on these
EnforceRaises(paris) ==
    \/ paris.k \in {"num", "str"}
    \/ \E i \in 1..Len(paris.l) : ~paris.l[i].obj \/ paris.l[i].mise.k = "str"

\* ratio = (budget + tolerance) / total_actuel, as numerator and denominator
RatioNum(budget) == budget + TOLERANCE

_enforce_budget(json, budget) ==
    LET paris == json.paris
        total_actuel == SumSeq(MiseOrZero(paris.l))
        scaled == [i \in 1..Len(paris.l) |->
                     [paris.l[i] EXCEPT !.mise =
                         Num(ScaleMise(paris.l[i].mise.n, RatioNum(budget), total_actuel))]]
    IN IF NoParis(json) THEN [raised |-> FALSE, json |-> json]
       ELSE IF EnforceRaises(paris) THEN [raised |-> TRUE, json |-> json]
       ELSE IF total_actuel <= 0 THEN [raised |-> FALSE, json |-> json]
       ELSE IF \E i \in 1..Len(paris.l) : paris.l[i].mise.k = "absent"
            THEN [raised |-> TRUE, json |-> json]
       ELSE [raised |-> FALSE,
             json |-> [json EXCEPT !.paris = PList(scaled),
                                   !.budget_utilise = Num(SumSeq(MiseOrZero(scaled)))]]

\* confiance < 4
KillSwitchRV(json) == json.conf.n < KILL_SWITCH_RV

\* num < 1 or num > race.nb_partants
CheckChevauxRV(bet, nb_partants) ==
    LET chevaux == bet.chevaux
    IN IF chevaux.k = "absent" THEN "ok"
       ELSE IF chevaux.k = "num" THEN "raise"
       ELSE IF \E i \in 1..Len(chevaux.l) :
                  /\ \A j \in 1..(i - 1) : chevaux.l[j].k = "num" /\ chevaux.l[j].n >= 1
                                           /\ chevaux.l[j].n <= nb_partants
                  /\ chevaux.l[i].k = "str"
            THEN "raise"
       ELSE IF \A i \in 1..Len(chevaux.l) : chevaux.l[i].n >= 1 /\ chevaux.l[i].n <= nb_partants
            THEN "ok" ELSE "invalid"

CheckBetRV(bet, nb_partants) ==
    IF ~bet.obj THEN "raise"
    ELSE IF bet.type \notin VALID_BET_TYPES THEN "invalid"
    ELSE CheckChevauxRV(bet, nb_partants)

RECURSIVE ValidateLoopRV(_, _)
ValidateLoopRV(bets, nb_partants) ==
    IF bets = <<>> THEN "ok"
    ELSE LET r == CheckBetRV(Head(bets), nb_partants)
         IN IF r # "ok" THEN r ELSE ValidateLoopRV(Tail(bets), nb_partants)

_validate_bets(json, nb_partants) ==
    IF json.paris.k \in {"num", "str"} THEN "raise"
    ELSE ValidateLoopRV(json.paris.l, nb_partants)

\* _parse_to_race_analysis: pari_data[key] raises KeyError on a missing key
ParseFails(json) ==
    \E i \in 1..Len(json.paris.l) :
        LET b == json.paris.l[i]
        IN b.mise.k = "absent" \/ b.chevaux.k = "absent" \/ b.roi_attendu.k = "absent"

\* a RaceAnalysis, None, or an exception
Analysis(r, none, sc, bets, bu) ==
    [raised |-> r, none |-> none, scenario_course |-> sc,
     paris_recommandes |-> bets, budget_utilise |-> bu]

NoAnalysis == Analysis(FALSE, TRUE, "", <<>>, 0)
RaisedAnalysis == Analysis(TRUE, TRUE, "", <<>>, 0)

\* steps 4-6 of validate_and_parse, on the possibly corrected response
AfterBudget(json, nb_partants) ==
    IF json.conf.k = "str" THEN RaisedAnalysis
    ELSE IF KillSwitchRV(json) THEN Analysis(FALSE, FALSE, "NON_JOUABLE", <<>>, 0)
    ELSE IF _validate_bets(json, nb_partants) = "raise" THEN RaisedAnalysis
    ELSE IF _validate_bets(json, nb_partants) = "invalid" THEN NoAnalysis
    ELSE IF ParseFails(json) THEN NoAnalysis
    ELSE Analysis(FALSE, FALSE, json.scenario, json.paris.l, json.budget_utilise.n)

validate_and_parse(json, nb_partants, budget) ==
    IF ~_validate_structure(json) THEN NoAnalysis
    ELSE IF ~_validate_scenario(json) THEN NoAnalysis
    ELSE IF _validate_budget(json, budget) = "raise" THEN RaisedAnalysis
    ELSE IF _validate_budget(json, budget) = "ok" THEN AfterBudget(json, nb_partants)
    ELSE IF _enforce_budget(json, budget).raised THEN RaisedAnalysis
    ELSE AfterBudget(_enforce_budget(json, budget).json, nb_partants)

\* ------------------------------------------------------------------------
\* Scoring of one runner.  A runner (cheval) is a record of what the three
\* scorers read:
\*   valid            numPmu, nom and nombreCourses are in the participant
\*   musique          the string, as a sequence of characters
\*   nb_courses, nb_victoires, nb_places, gains (euros), cote (tenths), age
\*   driver_elite, trainer_elite, avis, sexe, deferre
\*                    ("", "DEFERRE_ANTERIEURS", "DEFERRE_ANTERIEURS_POSTERIEURS", "D4")
\*   history          what calculate_horse_score derives from coursesCourues:
\*                    [points_delta, points_regularite, points_niveau,
\*                     points_distance, shoe_impact, penalty_disqual]
\*   race             [points_dotation, points_trend] of the race and gains
\*   ecart            ecart_vs_reference in tenths of a second, or NoChrono
\*   affinite, specialite_inversee
\* All three scores are whole numbers in the source.
\* ------------------------------------------------------------------------
NoChrono == 999

Count(s, c) == Cardinality({i \in 1..Len(s) : s[i] = c})

Digits == {"0", "1", "2", "3", "4", "5", "6", "7", "8", "9"}

DigitVal(c) ==
    CASE c = "0" -> 0 [] c = "1" -> 1 [] c = "2" -> 2 [] c = "3" -> 3 [] c = "4" -> 4
      [] c = "5" -> 5 [] c = "6" -> 6 [] c = "7" -> 7 [] c = "8" -> 8 [] c = "9" -> 9

\* str.isdigit()
IsDigitStr(s) == s # <<>> /\ \A i \in 1..Len(s) : s[i] \in Digits

\* int(s) of a string of digits
RECURSIVE IntOf(_)
IntOf(s) == IF s = <<>> THEN 0
            ELSE 10 * IntOf(SubSeq(s, 1, Len(s) - 1)) + DigitVal(s[Len(s)])

\* str.split(): the words between the blanks
RECURSIVE SplitFrom(_, _, _)
SplitFrom(s, word, words) ==
    IF s = <<>> THEN IF word = <<>> THEN words ELSE Append(words, word)
    ELSE IF Head(s) = " "
         THEN SplitFrom(Tail(s), <<>>, IF word = <<>> THEN words ELSE Append(words, word))
         ELSE SplitFrom(Tail(s), Append(word, Head(s)), words)

Split(s) == SplitFrom(s, <<>>, <<>>)

\* app_v8.py calculate_horse_score, 1A: points of one position of the musique
PositionPoints(pos) ==
    LET rank == SubSeq(pos, 1, Len(pos) - 1)
    IN IF pos \in {<<"1", "a">>, <<"1", "m">>} THEN 4
       ELSE IF pos \in {<<"2", "a">>, <<"2", "m">>} THEN 3
       ELSE IF pos \in {<<"3", "a">>, <<"3", "m">>} THEN 2
       ELSE IF IsDigitStr(rank) /\ IntOf(rank) <= 5 THEN 1
       ELSE 0

points_musique(musique) ==
    LET positions == Prefix(Split(musique), 3)
    IN IF musique = <<>> THEN 2
       ELSE Min(SumSeq([i \in 1..Len(positions) |-> PositionPoints(positions[i])]), 12)

\* a table that pays a low win ratio more than a high one
points_victoires_Inverted(nb_courses, nb_victoires) ==
    IF nb_courses = 0 THEN 2
    ELSE IF 100 * nb_victoires >= 30 * nb_courses THEN 0
    ELSE IF 100 * nb_victoires >= 20 * nb_courses THEN 3
    ELSE IF 100 * nb_victoires >= 10 * nb_courses THEN 5
    ELSE IF 100 * nb_victoires >= 5 * nb_courses THEN 7
    ELSE 10

\* 1B: ratio_victoires = nb_victoires / nb_courses against 0.30, 0.20, 0.10, 0.05
points_victoires(nb_courses, nb_victoires) ==
    IF nb_courses = 0 THEN 2
    ELSE IF 100 * nb_victoires >= 30 * nb_courses THEN 10
    ELSE IF 100 * nb_victoires >= 20 * nb_courses THEN 7
    ELSE IF 100 * nb_victoires >= 10 * nb_courses THEN 5
    ELSE IF 100 * nb_victoires >= 5 * nb_courses THEN 3
    ELSE 0

\* 1C: ratio_podium = nb_places / nb_courses against 0.50 and 0.35
points_podium(nb_courses, nb_places) ==
    IF nb_courses = 0 THEN 1
    ELSE IF 100 * nb_places >= 50 * nb_courses THEN 5
    ELSE IF 100 * nb_places >= 35 * nb_courses THEN 3
    ELSE 1

\* 1D
points_gains(gains_euros) ==
    IF gains_euros > 100000 THEN 3 ELSE IF gains_euros > 50000 THEN 2 ELSE 1

points_performance(cheval) ==
    Min(Max(points_musique(cheval.musique)
            + points_victoires(cheval.nb_courses, cheval.nb_victoires)
            + points_podium(cheval.nb_courses, cheval.nb_places)
            + points_gains(cheval.gains), 5), 30)

points_chrono(cheval) ==
    Min(Max(cheval.history.points_delta + cheval.history.points_regularite
            + cheval.history.points_niveau, 5), 25)

\* 3A, 3B, 3C: ELITE_DRIVERS holds 7..10 (10 for the best), ELITE_TRAINERS 4..5
points_entourage(cheval) ==
    LET points_driver == IF cheval.driver_elite THEN 10 ELSE 4
        points_avis == CASE cheval.avis = "POSITIF" -> 5
                         [] cheval.avis = "NEGATIF" -> 0
                         [] OTHER -> 3
        points_trainer == IF cheval.trainer_elite THEN 5 ELSE 2
    IN Min(Max(points_driver + points_avis + points_trainer, 5), 20)

\* 4A, 4B, 4C
points_physique(cheval) ==
    LET points_age == IF 5 <= cheval.age /\ cheval.age <= 7 THEN 5
                      ELSE IF 4 <= cheval.age /\ cheval.age <= 8 THEN 3 ELSE 1
        points_sexe == CASE cheval.sexe = "HONGRES" -> 5
                         [] cheval.sexe = "FEMELLES" -> 3
                         [] OTHER -> 2
        points_ferrure_base == CASE cheval.deferre = "DEFERRE_ANTERIEURS_POSTERIEURS" -> 5
                                 [] cheval.deferre = "DEFERRE_ANTERIEURS" -> 3
                                 [] OTHER -> 1
        points_ferrure == Max(points_ferrure_base + cheval.history.shoe_impact, 0)
    IN Min(Max(points_age + points_sexe + points_ferrure, 5), 15)

\* 5A, 5B, 5C
points_contexte(cheval) ==
    Min(Max(cheval.history.points_distance + cheval.race.points_dotation
            + cheval.race.points_trend, 5), 10)

\* penalties: avis_negatif and disqualifications
PenaltiesV8(cheval) ==
    (IF cheval.avis = "NEGATIF" THEN -2 ELSE 0) + cheval.history.penalty_disqual

\* app_v8.py RaceAnalyzer.calculate_horse_score: HorseScore.total
calculate_horse_score(cheval) ==
    IF ~cheval.valid THEN 25
    ELSE Min(Max(points_performance(cheval) + points_chrono(cheval)
                 + points_entourage(cheval) + points_physique(cheval)
                 + points_contexte(cheval) + PenaltiesV8(cheval), 25), 100)

\* ------------------------------------------------------------------------
\* core/scoring_engine.py ScoringEngine._score_horse
\* ------------------------------------------------------------------------
\* int(ratio_victoires * 100) of nb_victoires / nb_courses
RatioPercent(nb_courses, nb_victoires) == (100 * nb_victoires) \div nb_courses

_score_performance(horse) ==
    LET recent == Prefix(horse.musique, 5)
        ratio == IF horse.nb_courses > 0
                 THEN Min(15, RatioPercent(horse.nb_courses, horse.nb_victoires))
                 ELSE 0
        regularite == IF horse.nb_courses >= 5
                         /\ 10 * (horse.nb_victoires + horse.nb_places) >= 6 * horse.nb_courses
                      THEN 5 ELSE 0
        recentes == 5 * Count(recent, "1") + 2 * (Count(recent, "2") + Count(recent, "3"))
    IN Min(30, ratio + regularite + recentes)

_score_chrono(horse) ==
    IF horse.ecart = NoChrono THEN 0
    ELSE IF horse.ecart <= -15 THEN 25
    ELSE IF horse.ecart <= -5 THEN 20
    ELSE IF horse.ecart <= 5 THEN 15
    ELSE IF horse.ecart <= 15 THEN 10
    ELSE 5

_score_entourage(horse) ==
    Min(20, Max(0, 10 + (IF horse.driver_elite THEN 5 ELSE 0)
                      + (CASE horse.avis = "POSITIF" -> 5
                           [] horse.avis = "NEGATIF" -> -3
                           [] OTHER -> 0)))

\* the scraper stores deferre as the API gives it; '4', 'D4', 'DP' and
\* '2AP', '2A' are the codes the engine rewards
_score_physique(horse) ==
    Min(15, Max(0, 10 + (CASE horse.deferre = "D4" -> 5
                           [] horse.deferre = "2A" -> 3
                           [] OTHER -> 0)
                      + (IF 4 <= horse.age /\ horse.age <= 8 THEN 2
                         ELSE IF horse.age > 10 THEN -2 ELSE 0)))

_score_contexte(horse) ==
    Min(10, Max(0, 5 + (IF horse.affinite THEN 3 ELSE 0)
                     - (IF horse.specialite_inversee THEN 2 ELSE 0)))

_score_horse(horse) ==
    _score_performance(horse) + _score_chrono(horse) + _score_entourage(horse)
    + _score_physique(horse) + _score_contexte(horse)

\* ------------------------------------------------------------------------
\* frontend/app.py score_horses: the score of one partant
\* ------------------------------------------------------------------------
score_horses(partant) ==
    LET recent == IF Len(partant.musique) >= 5 THEN Prefix(partant.musique, 5)
                  ELSE partant.musique
    IN 50 + (IF 30 <= partant.cote /\ partant.cote <= 150 THEN 15
             ELSE IF partant.cote < 30 THEN 5 ELSE 0)
          + 10 * Count(recent, "1")
          - (IF partant.age < 3 THEN 5 ELSE 0)

\* core/scraper.py _build_horse: the statistics are made coherent
_build_horse(participant) ==
    LET nb_places == Max(participant.nb_places, participant.nb_victoires)
        nb_courses == Max(participant.nb_courses, nb_places)
    IN [participant EXCEPT !.nb_places = nb_places, !.nb_courses = nb_courses]

\* the score the scorer of a pipeline gives a participant of the provider
ScoreOf(scorer, cheval) ==
    CASE scorer = "v8" -> calculate_horse_score(cheval)
      [] scorer = "app" -> _score_horse(_build_horse(cheval))
      [] scorer = "frontend" -> score_horses(cheval)

\* ------------------------------------------------------------------------
\* Inputs of the scorers
\* ------------------------------------------------------------------------
MaxWins == 4

Musiques ==
    { <<>>,
      <<"1", "a", "2", "a", "3", "a">>,
      <<"1", "a", " ", "1", "m", " ", "1", "a", " ", "4", "a">>,
      <<"D", "a", " ", "9", "a", " ", "0", "a">>,
      <<"1", "1", "1", "1", "1">> }

\* everything the model does not vary one by one, at its worst and at its best
RestOf(level) ==
    IF level = "min"
    THEN [history |-> [points_delta |-> 0, points_regularite |-> 1, points_niveau |-> 1,
                       points_distance |-> 1, shoe_impact |-> -3, penalty_disqual |-> -30],
          race |-> [points_dotation |-> 1, points_trend |-> 0],
          driver_elite |-> FALSE, trainer_elite |-> FALSE, avis |-> "NEGATIF",
          sexe |-> "MALES", gains |-> 0, ecart |-> NoChrono,
          affinite |-> FALSE, specialite_inversee |-> TRUE]
    ELSE [history |-> [points_delta |-> 15, points_regularite |-> 5, points_niveau |-> 5,
                       points_distance |-> 5, shoe_impact |-> 5, penalty_disqual |-> 0],
          race |-> [points_dotation |-> 3, points_trend |-> 2],
          driver_elite |-> TRUE, trainer_elite |-> TRUE, avis |-> "POSITIF",
          sexe |-> "HONGRES", gains |-> 200000, ecart |-> -20,
          affinite |-> TRUE, specialite_inversee |-> FALSE]

MkCheval(valid, musique, nc, nv, np, age, cote, deferre, level) ==
    [valid |-> valid, musique |-> musique, nb_courses |-> nc, nb_victoires |-> nv,
     nb_places |-> np, age |-> age, cote |-> cote, deferre |-> deferre,
     history |-> RestOf(level).history, race |-> RestOf(level).race,
     driver_elite |-> RestOf(level).driver_elite,
     trainer_elite |-> RestOf(level).trainer_elite,
     avis |-> RestOf(level).avis, sexe |-> RestOf(level).sexe,
     gains |-> RestOf(level).gains, ecart |-> RestOf(level).ecart,
     affinite |-> RestOf(level).affinite,
     specialite_inversee |-> RestOf(level).specialite_inversee]

Chevaux ==
    {MkCheval(valid, musique, nc, nv, np, age, cote, deferre, level) :
        valid \in BOOLEAN, musique \in Musiques, nc \in {0, 4, 10}, nv \in 0..MaxWins,
        np \in {0, 5}, age \in {2, 5, 11}, cote \in {0, 50, 200},
        deferre \in {"", "DEFERRE_ANTERIEURS_POSTERIEURS", "D4"}, level \in {"min", "max"}}

NoCheval == MkCheval(FALSE, <<>>, 0, 0, 0, 0, 0, "", "min")

\* ------------------------------------------------------------------------
\* Caches of provider data: timed_cache of app_v8.py, PMUScraper._cache of
\* core/scraper.py, the module dict cache of frontend/app.py.
\* Data is the version of the race the provider served, NoData is None.
\* ------------------------------------------------------------------------
CACHE_TTL == 300

\* seconds between two readings of the clock
ClockStep == 100

MaxClock == 700
MaxVersion == 2
MaxRequests == 4

CacheKeys == {"R1C1", "R1C2"}

NoData == -1

Entry(data, timestamp) == [present |-> TRUE, data |-> data, timestamp |-> timestamp]

NoEntry == [present |-> FALSE, data |-> NoData, timestamp |-> 0]

\* timed_cache wrapper: `age < seconds`; get_race_data:
\* `datetime.now() - cached_time < self._cache_ttl`
Fresh(entry, t) == entry.present /\ t - entry.timestamp < CACHE_TTL

\* scrape_pmu_race of the frontend: `if cache_key in cache`
InCache(entry) == entry.present

\* ------------------------------------------------------------------------
\* History of app.py: every worker process holds its own history_store,
\* loaded from data/history.json when the module is imported, and rewrites
\* the file after each analysis. An entry is [worker, n]: the n-th analysis
\* of that worker (worker 0: an entry found in the file).
\* ------------------------------------------------------------------------
NumWorkers == 2
MaxAnalyses == 2

Workers == 1..NumWorkers

NoFile == [exists |-> FALSE, data |-> <<>>]

\* a file opened for appending keeps what it holds
open_w_Append(f) == [exists |-> TRUE, data |-> f.data]

\* open(HISTORY_FILE, 'w'): the file is created or truncated
open_w(f) == [exists |-> TRUE, data |-> <<>>]

\* json.dump(history, f): the list is written at the end of the open file
json_dump(history, f) == [f EXCEPT !.data = f.data \o history]

load_history(f) == IF f.exists THEN f.data ELSE <<>>

save_history(history, f) == json_dump(history, open_w(f))

OwnEntries(history, w) ==
    LET Own(e) == e.worker = w IN SelectSeq(history, Own)

history_entry(history, w) == [worker |-> w, n |-> Len(OwnEntries(history, w)) + 1]

\* ------------------------------------------------------------------------
\* Fetch of the provider's JSON: PMUScraper._fetch_json of core/scraper.py
\* and core/pmu_scraper_v2.py, scrape_pmu_race of backend/app.py under
\* retry_on_failure(max_attempts=3). An answer is the status of the
\* response ("200_bad": 200 with a body that is not the JSON expected) or
\* the exception of the GET ("timeout", "conn").
\* ------------------------------------------------------------------------
MaxRetryCount == 2

\* retry_on_failure(max_attempts=3, delay=2)
BACKEND_MAX_ATTEMPTS == 3

Statuses == {"200", "200_bad", "404", "429", "500", "503", "timeout", "conn"}

\* a fetch that never tries again
MayRetry_Never(attempt, retries) == FALSE

\* `if attempt < retry_count`: another iteration of the loop is left
MayRetry(attempt, retries) == attempt < retries

\* what an iteration of the loop ends in: [result, slept]
Step(result, slept) == [result |-> result, slept |-> slept]

Retried(attempt, retries) ==
    IF MayRetry(attempt, retries) THEN Step("pending", TRUE) ELSE Step("none", FALSE)

\* core/scraper.py lines 130-171; after the timeout or connection error of
\* the last iteration nothing is returned inside the loop
_fetch_json(status, attempt, retries) ==
    CASE status = "404" -> Step("none", FALSE)
      [] status = "503" -> Retried(attempt, retries)
      [] status = "500" -> Step("none", FALSE)
      [] status = "200" -> Step("json", FALSE)
      [] status \in {"timeout", "conn"} -> Step("pending", MayRetry(attempt, retries))
      [] OTHER -> Step("none", FALSE)

\* core/pmu_scraper_v2.py lines 123-183
_fetch_json_v2(status, attempt, retries) ==
    CASE status = "200" -> Step("json", FALSE)
      [] status = "404" -> Step("none", FALSE)
      [] status \in {"429", "503", "timeout", "conn"} -> Retried(attempt, retries)
      [] OTHER -> Step("none", FALSE)

\* backend/app.py lines 79-94 and 230-313: raise_for_status and the checks
\* of the body raise, every exception is raised again and the decorator
\* calls the function once more unless it was the last attempt
retry_on_failure(status, attempt, max_attempts) ==
    IF status = "200" THEN Step("json", FALSE)
    ELSE IF attempt = max_attempts - 1 THEN Step("raised", FALSE)
    ELSE Step("pending", TRUE)

FetchOutcome(impl, status, attempt, retries) ==
    CASE impl = "scraper" -> _fetch_json(status, attempt, retries)
      [] impl = "scraper_v2" -> _fetch_json_v2(status, attempt, retries)
      [] impl = "backend" -> retry_on_failure(status, attempt, BACKEND_MAX_ATTEMPTS)

\* ------------------------------------------------------------------------
\* Inputs: the race the provider serves and the outputs the model may give
\* ------------------------------------------------------------------------
ScoreProfiles == {<<60, 60>>, <<75, 75>>, <<90, 75>>}

\* numPmu of the first runner left once the scratched ones are filtered out:
\* 1 when nobody is scratched, 2 when runner 1 is a non-partant
FirstNumbers == {1, 2}

\* n runners sorted by score, numbered from first; runner vbpos is a value bet
MkField(n, prof, vbpos, first) ==
    [i \in 1..n |-> [numero |-> first + i - 1,
                     score |-> IF i = 1 THEN prof[1] ELSE prof[2],
                     vb |-> (i = vbpos),
                     edge |-> IF i = vbpos THEN 80 ELSE 0]]

\* rank of the value bet of the field: none, inside the top 3, outside it
VbPositions == {0, 2, 4}

Fields ==
    {MkField(n, prof, vbpos, first) : n \in 0..MaxRunners, prof \in ScoreProfiles,
                                      vbpos \in VbPositions, first \in FirstNumbers}

Race(ok, runners) == [ok |-> ok, runners |-> runners]

Providers == {Race(FALSE, <<>>)} \cup {Race(TRUE, f) : f \in Fields}

\* analyze_race reads the race only through its number of runners
AppProviders ==
    {Race(FALSE, <<>>)} \cup {Race(TRUE, MkField(n, <<75, 75>>, 0, 1)) : n \in 0..MaxRunners}

\* frontend and backend read the numbers and the scores of the partants
WebProviders ==
    {Race(FALSE, <<>>)}
    \cup {Race(TRUE, MkField(n, prof, 0, 1)) :
            n \in 0..MaxRunners, prof \in ScoreProfiles \cup {<<90, 60>>}}

\* the valid budget query parameters the requests carry
BudgetsApp == {500, 2000}

\* The query string of /race.  date is "ok", "missing" or "invalid" (not a
\* DDMMYYYY date); r and c are "ok", "missing", "not_int" (not a number) or
\* "out_of_range" (a number no meeting or race carries, such as 99); budget is
\* the amount in cents (the default when the parameter is absent).
Request(d, r, c, b) == [date |-> d, r |-> r, c |-> c, budget |-> b]

Requests ==
    {Request("ok", "ok", "ok", b) : b \in BudgetsApp \cup {700}}
    \cup {Request(d, "ok", "ok", 2000) : d \in {"missing", "invalid"}}
    \cup {Request("ok", r, "ok", 2000) : r \in {"missing", "not_int", "out_of_range"}}
    \cup {Request("ok", "ok", c, 2000) : c \in {"missing", "not_int", "out_of_range"}}

\* the provider has a race for the date, meeting and race of the request;
\* the race served matters only to a request that can be served
Served(req) ==
    req.date = "ok" /\ req.r = "ok" /\ req.c = "ok" /\ req.budget \in BudgetsApp

\* not all([date, r, c]) on the raw strings
Missing(req) == req.date = "missing" \/ req.r = "missing" \/ req.c = "missing"

\* not date_str or not reunion or not course, after request.args.get(type=int)
MissingOrNotInt(req) ==
    Missing(req) \/ req.r = "not_int" \/ req.c = "not_int"

\* backend/app.py validate_params: "ok" for None, else the kind of message
validate_params(req) ==
    IF req.date = "missing" THEN "date_missing"
    ELSE IF req.date # "ok" THEN "date_invalid"
    ELSE IF req.r # "ok" THEN "reunion_invalid"
    ELSE IF req.c # "ok" THEN "course_invalid"
    ELSE IF req.budget \notin {500, 1000, 1500, 2000} THEN "budget_invalid"
    ELSE "ok"

BetPool ==
    { GeminiBet("SIMPLE_GAGNANT", NumList(<<1>>), Num(300), Num(30)),
      GeminiBet("COUPLE_GAGNANT", NumList(<<1, 2>>), Num(250), Num(36)),
      GeminiBet("QUINTE", NumList(<<1, 2>>), Num(300), Num(90)),
      GeminiBet("TRIO", NumList(<<1>>), Num(300), Num(90)),
      GeminiBet("SIMPLE_PLACE", NumList(<<9>>), Num(300), Num(90)),
      GeminiBet("SIMPLE_GAGNANT", NumList(<<1>>), Num(0), Num(90)),
      GeminiBet("SIMPLE_GAGNANT", NumList(<<1>>), Str, Num(90)),
      GeminiBet("SIMPLE_GAGNANT", NumList(<<1>>), Num(300), Str),
      NotAnObject }

BetLists == UNION {[1..n -> BetPool] : n \in 0..MaxBets}

ParisValues == {PList(l) : l \in BetLists} \cup {PStr, PNum, PAbsent}

\* race data and data quality served with the field: a poor, a middling and
\* a rich race
RaceInfosV8 ==
    { RaceInfo(FALSE, FALSE, 400, 0, FALSE, "TRES_LOURD"),
      RaceInfo(TRUE, FALSE, 500, 30000, FALSE, "BON"),
      RaceInfo(TRUE, TRUE, 800, 100000, TRUE, "BON") }

\* inputs of the budget analysis taken on its own
QualityScores == {0, 400, 500, 800, 1000}
Dotations == {0, 30000, 100000}
EtatsPiste == {"BON", "LOURD", "TRES_LOURD"}

RaceInfos ==
    {RaceInfo(cok, mok, q, dot, pr, ep) :
        cok \in BOOLEAN, mok \in BOOLEAN, q \in QualityScores,
        dot \in Dotations, pr \in BOOLEAN, ep \in EtatsPiste}

ScoreLists ==
    { <<60>>, <<60, 60>>, <<90, 75>>, <<90, 82>>, <<75, 75, 75, 75, 75>>,
      <<100, 85, 85, 75, 75, 75>>, <<88, 80, 80, 80, 70, 70, 70, 70, 70, 70>> }

\* a scored field with the given scores whose first nvb runners are value
\* bets of edge e
MkScored(scores, nvb, e) ==
    [i \in 1..Len(scores) |-> [numero |-> i, score |-> scores[i],
                               vb |-> (i <= nvb),
                               edge |-> IF i <= nvb THEN e ELSE 0]]

BudgetFields == {MkScored(sc, nvb, e) : sc \in ScoreLists, nvb \in 0..2, e \in {80, 120, 200}}

JsonV8 ==
    {ResultJson(TRUE, p, c, "CADENAS", Num(0)) :
        p \in ParisValues, c \in {Absent, Num(3), Num(9), Str}}
    \cup {NoJson}

JsonApp ==
    {ResultJson(TRUE, p, c, sc, bu) :
        p \in ParisValues, c \in {Num(3), Num(5), Num(9), Str},
        sc \in {"CADENAS", "NON_JOUABLE", "QUINTE"},
        bu \in {Num(400), Num(5000)}}
    \cup {NoJson}

\* ------------------------------------------------------------------------
\* State
\* ------------------------------------------------------------------------
VARIABLES
    pipeline,           \* "v8" (app_v8.py), "app" (app.py), "frontend", "backend"
    request,            \* the query parameters of the /race request
    provider,           \* the race the data provider serves for this request
    api_key,            \* GEMINI_API_KEY is set
    pc,                 \* position of the request in its handler
    analyses,           \* scored runners, sorted by score
    race_info,          \* race data and data quality read by the budget analysis
    budget_analysis,    \* the result of calculate_dynamic_budget
    budget,             \* budget_recommended (v8) or the budget parameter
    python_bets,        \* the BetOptimizer selection
    attempt,            \* calls of the external model made for the request
    result_json,        \* the parsed model output
    gemini_bets,        \* process_race's gemini_bets
    gemini_error,       \* "none", "config", "api", "kill_switch", "validation"
    strategy_selected,  \* "python" or "gemini"
    bets_recommended,   \* the recommendations of the result
    total_cost,         \* budget_used / budget_utilise of the result
    scenario_out,       \* the scenario of the race in the result
    http_status,        \* 0 while running, then the status of the response
    success,            \* the response carries a result, not an error
    failure,            \* "" or what made the request fail
    cheval,             \* the participant a scorer is given
    more_wins,          \* nombreVictoires of its twin, equal in all the rest
    score_total,        \* the score of cheval, -1 before it is scored
    score_twin,         \* the score of the twin, -1 before it is scored
    cache_impl,         \* "timed_cache" (app_v8), "scraper" (core), "frontend"
    now,                \* datetime.now(), in seconds
    upstream,           \* version of the data the provider serves
    cache,              \* the cache dict: key -> entry
    stored_at,          \* key -> time of the last write of its entry
    fetches,            \* calls of the cached function made so far
    requests,           \* calls of the caching wrapper made so far
    req_key,            \* key of the last call
    served,             \* what the last call returned
    history_file,       \* data/history.json: [exists, data]
    history_store,      \* worker -> the history_store list of its process
    worker_pc,          \* worker -> "down", "idle", "appended"
    fetch_impl,         \* "scraper", "scraper_v2" (core), "backend"
    retry_count,        \* the retry_count argument of _fetch_json
    answers,            \* what the provider answered to each GET, in order
    sleeps,             \* calls of time.sleep made by the fetch
    fetch_result        \* "pending", "json", "none" (None), "raised"

reqVars == <<pipeline, request, provider, api_key>>
scoreVars == <<cheval, more_wins, score_total, score_twin>>
cacheVars == <<cache_impl, now, upstream, cache, stored_at, fetches, requests, req_key, served>>
histVars == <<history_file, history_store, worker_pc>>
fetchVars == <<fetch_impl, retry_count, answers, sleeps, fetch_result>>

\* what no step of a request handler changes
envVars == <<reqVars, scoreVars, cacheVars, histVars, fetchVars>>
extVars == <<attempt, result_json, gemini_bets, gemini_error>>
resultVars == <<strategy_selected, bets_recommended, total_cost>>
respVars == <<http_status, success, failure>>

vars == <<pipeline, request, provider, api_key, pc, analyses, race_info, budget_analysis,
          budget, python_bets, attempt, result_json, gemini_bets, gemini_error,
          strategy_selected, bets_recommended, total_cost, scenario_out,
          http_status, success, failure, cheval, more_wins, score_total, score_twin,
          cache_impl, now, upstream, cache, stored_at, fetches, requests, req_key, served,
          history_file, history_store, worker_pc,
          fetch_impl, retry_count, answers, sleeps, fetch_result>>

\* what the handlers of a request work on
workVars == <<analyses, race_info, budget_analysis, budget, python_bets, attempt,
              result_json, gemini_bets, gemini_error, strategy_selected,
              bets_recommended, total_cost, scenario_out, http_status, success, failure>>

\* no runner is being scored on its own
IdleScore == cheval = NoCheval /\ more_wins = 0 /\ score_total = -1 /\ score_twin = -1

\* no cache is in use
IdleCache ==
    /\ cache_impl = "" /\ now = 0 /\ upstream = 0
    /\ cache = [k \in CacheKeys |-> NoEntry]
    /\ stored_at = [k \in CacheKeys |-> 0]
    /\ fetches = 0 /\ requests = 0 /\ req_key = "" /\ served = NoData

\* no worker process is running
IdleHistory ==
    /\ history_file = NoFile
    /\ history_store = [w \in Workers |-> <<>>]
    /\ worker_pc = [w \in Workers |-> "down"]

\* no fetch is under way
IdleFetch ==
    /\ fetch_impl = "" /\ retry_count = 0 /\ answers = <<>> /\ sleeps = 0
    /\ fetch_result = "none"

\* everything a handler has not touched yet
Untouched ==
    /\ analyses = <<>>
    /\ race_info = NoRaceInfo
    /\ budget_analysis = NoBudgetAnalysis
    /\ budget = 0
    /\ python_bets = <<>>
    /\ attempt = 0
    /\ result_json = NoJson
    /\ gemini_bets = PNone
    /\ gemini_error = "none"
    /\ strategy_selected = "python"
    /\ bets_recommended = <<>>
    /\ total_cost = 0
    /\ scenario_out = ""
    /\ http_status = 0
    /\ success = FALSE
    /\ failure = ""

Init ==
    /\ pipeline \in {"v8", "app", "frontend", "backend"}
    /\ request \in Requests
    /\ provider \in Providers \cup WebProviders
    /\ api_key \in BOOLEAN
    /\ pipeline = "v8" => request.budget = BUDGET_MAX_INITIAL /\ provider \in Providers
    /\ pipeline = "app" => api_key /\ provider \in AppProviders
    /\ pipeline \in {"frontend", "backend"} => api_key /\ provider \in WebProviders
    /\ ~Served(request) => api_key /\ provider = Race(FALSE, <<>>)
    /\ pc = "start"
    /\ Untouched
    /\ IdleScore
    /\ IdleCache
    /\ IdleHistory
    /\ IdleFetch

\* ------------------------------------------------------------------------
\* app_v8.py api_race / TrotOrchestrator.process_race
\* ------------------------------------------------------------------------
Respond(status, ok, why) ==
    /\ pc' = "done"
    /\ http_status' = status
    /\ success' = ok
    /\ failure' = why

\* api_race lines 3146-3160: all([date, r, c]), then int(r), int(c)
ApiRaceV8 ==
    /\ pipeline = "v8" /\ pc = "start"
    /\ IF Missing(request) THEN Respond(400, FALSE, "params")
       ELSE IF request.r = "not_int" \/ request.c = "not_int"
       THEN Respond(500, FALSE, "exception")
       ELSE /\ pc' = "params_ok"
            /\ UNCHANGED respVars
    /\ UNCHANGED <<envVars, analyses, race_info, budget_analysis, budget, python_bets,
                   extVars, resultVars, scenario_out>>

\* lines 2653-2800: fetch, filter, score and sort the runners
FetchV8 ==
    /\ pipeline = "v8" /\ pc = "params_ok"
    /\ IF ~provider.ok
       THEN /\ Respond(200, FALSE, "unavailable")
            /\ UNCHANGED <<analyses, race_info>>
       ELSE /\ analyses' = provider.runners
            /\ race_info' \in RaceInfosV8
            /\ pc' = "scored"
            /\ UNCHANGED respVars
    /\ UNCHANGED <<envVars, budget_analysis, budget, python_bets, extVars, resultVars,
                   scenario_out>>

\* lines 2805-2845: quality, scenario and dynamic budget; quality['pct_chronos']
\* is missing from the quality of an empty field (KeyError)
BudgetV8 ==
    /\ pipeline = "v8" /\ pc = "scored"
    /\ IF analyses = <<>>
       THEN /\ Respond(500, FALSE, "exception")
            /\ UNCHANGED <<budget_analysis, budget, scenario_out>>
       ELSE /\ LET in == BudgetInputOf(analyses, race_info)
               IN /\ budget_analysis' = calculate_dynamic_budget(in)
                  /\ budget' = calculate_dynamic_budget(in).budget_recommended
                  /\ scenario_out' = calculate_scenario_confidence(in).scenario
            /\ pc' = "budgeted"
            /\ UNCHANGED respVars
    /\ UNCHANGED <<envVars, analyses, race_info, python_bets, extVars, resultVars>>

\* lines 2857-2870: the local bets are always generated
LocalV8 ==
    /\ pipeline = "v8" /\ pc = "budgeted"
    /\ python_bets' = generate_bets(analyses, budget)
    /\ pc' = "local_done"
    /\ UNCHANGED <<envVars, analyses, race_info, budget_analysis, budget, extVars,
                   resultVars, scenario_out, respVars>>

\* a retry decorator that never stops
stop_after_attempt_Never(attempt_number) == FALSE

\* tenacity stop_after_attempt(3): the loop ends once the attempt that has
\* just failed is the third
stop_after_attempt(attempt_number) == attempt_number >= MAX_ATTEMPTS

\* lines 2879-2881: no API key, ValueError before any call
GeminiConfigError ==
    /\ pipeline = "v8" /\ pc = "local_done" /\ ~api_key
    /\ gemini_error' = "config"
    /\ pc' = "ext_done"
    /\ UNCHANGED <<envVars, analyses, race_info, budget_analysis, budget, python_bets,
                   attempt, result_json, gemini_bets, resultVars, scenario_out, respVars>>

\* lines 2907-2917: one attempt of call_gemini_with_retry raises (network,
\* timeout, quota, or json.loads on malformed text); the third failure
\* leaves the retry loop with an exception
GeminiAttemptFails ==
    /\ pipeline = "v8" /\ pc = "local_done" /\ api_key
    /\ attempt' = attempt + 1
    /\ IF stop_after_attempt(attempt + 1)
       THEN /\ gemini_error' = "api"
            /\ pc' = "ext_done"
       ELSE UNCHANGED <<gemini_error, pc>>
    /\ UNCHANGED <<envVars, analyses, race_info, budget_analysis, budget, python_bets,
                   result_json, gemini_bets, resultVars, scenario_out, respVars>>

\* lines 2912-2957: an attempt returns parsed JSON; rest of the try block
GeminiAttemptReturns ==
    /\ pipeline = "v8" /\ pc = "local_done" /\ api_key
    /\ \E json \in JsonV8 :
          /\ result_json' = json
          /\ gemini_bets' = AfterCall(json).gemini_bets
          /\ gemini_error' = AfterCall(json).gemini_error
    /\ attempt' = attempt + 1
    /\ pc' = "ext_done"
    /\ UNCHANGED <<envVars, analyses, race_info, budget_analysis, budget, python_bets,
                   resultVars, scenario_out, respVars>>

\* lines 2959-3106, then api_race 3162-3169
ArbitrateV8 ==
    /\ pipeline = "v8" /\ pc = "ext_done"
    /\ LET o == select_strategy(gemini_bets, gemini_error, python_bets, budget,
                                Len(analyses))
           locked == enforce_budget(o.bets_recommended, budget)
       IN IF o.raised
          THEN /\ Respond(500, FALSE, "arbiter_exception")
               /\ UNCHANGED <<resultVars, gemini_error>>
          ELSE /\ Respond(200, TRUE, "")
               /\ strategy_selected' = o.strategy_selected
               /\ gemini_error' = o.gemini_error
               /\ bets_recommended' = locked
               /\ total_cost' = SumSeq(MiseOrZero(locked))
    /\ UNCHANGED <<envVars, analyses, race_info, budget_analysis, budget, python_bets,
                   attempt, result_json, gemini_bets, scenario_out>>

\* ------------------------------------------------------------------------
\* app.py analyze_race
\* ------------------------------------------------------------------------
VALID_BUDGETS == {500, 1000, 1500, 2000}

\* lines 393-410: not date_str or not reunion or not course, then the budget
AppRequest ==
    /\ pipeline = "app" /\ pc = "start"
    /\ IF MissingOrNotInt(request) \/ request.budget \notin VALID_BUDGETS
       THEN /\ Respond(400, FALSE, "params")
            /\ UNCHANGED budget
       ELSE /\ budget' = request.budget
            /\ pc' = "params_ok"
            /\ UNCHANGED respVars
    /\ UNCHANGED <<envVars, analyses, race_info, budget_analysis, python_bets, extVars,
                   resultVars, scenario_out>>

\* lines 416-443: scraping, scoring, value bets; score_race divides by
\* race.nb_partants (scoring_engine.py _calculate_global_indicators), so a
\* race without horses ends in the handler's except clause
AppScrape ==
    /\ pipeline = "app" /\ pc = "params_ok"
    /\ IF ~provider.ok
       THEN /\ Respond(404, FALSE, "not_found")
            /\ UNCHANGED analyses
       ELSE IF provider.runners = <<>>
       THEN /\ Respond(500, FALSE, "exception")
            /\ UNCHANGED analyses
       ELSE /\ analyses' = provider.runners
            /\ pc' = "scored"
            /\ UNCHANGED respVars
    /\ UNCHANGED <<envVars, race_info, budget_analysis, budget, python_bets, extVars,
                   resultVars, scenario_out>>

\* gemini_client.py analyze_race: generate_content raises; tenacity retries
\* and re-raises after the last attempt (reraise=True), app.py answers 500
AppAttemptFails ==
    /\ pipeline = "app" /\ pc = "scored"
    /\ attempt' = attempt + 1
    /\ IF stop_after_attempt(attempt + 1)
       THEN /\ gemini_error' = "api"
            /\ Respond(500, FALSE, "exception")
       ELSE UNCHANGED <<gemini_error, pc, respVars>>
    /\ UNCHANGED <<envVars, analyses, race_info, budget_analysis, budget, python_bets,
                   result_json, gemini_bets, resultVars, scenario_out>>

\* gemini_client.py lines 131-143 and app.py 455-459: an empty or
\* unparsable answer is returned as None, without retry
AppAttemptEmpty ==
    /\ pipeline = "app" /\ pc = "scored"
    /\ attempt' = attempt + 1
    /\ gemini_error' = "api"
    /\ Respond(500, FALSE, "gemini")
    /\ UNCHANGED <<envVars, analyses, race_info, budget_analysis, budget, python_bets,
                   result_json, gemini_bets, resultVars, scenario_out>>

AppAttemptReturns ==
    /\ pipeline = "app" /\ pc = "scored"
    /\ \E json \in JsonApp : result_json' = json
    /\ attempt' = attempt + 1
    /\ pc' = "ext_done"
    /\ UNCHANGED <<envVars, analyses, race_info, budget_analysis, budget, python_bets,
                   gemini_bets, gemini_error, resultVars, scenario_out, respVars>>

\* app.py lines 461-519
AppValidate ==
    /\ pipeline = "app" /\ pc = "ext_done"
    /\ LET a == validate_and_parse(result_json, Len(analyses), budget)
       IN IF a.raised
          THEN /\ Respond(500, FALSE, "exception")
               /\ UNCHANGED <<resultVars, scenario_out>>
          ELSE IF a.none
          THEN /\ Respond(500, FALSE, "validation")
               /\ UNCHANGED <<resultVars, scenario_out>>
          ELSE /\ Respond(200, TRUE, "")
               /\ strategy_selected' = "gemini"
               /\ bets_recommended' = a.paris_recommandes
               /\ total_cost' = a.budget_utilise
               /\ scenario_out' = a.scenario_course
    /\ UNCHANGED <<envVars, analyses, race_info, budget_analysis, budget, python_bets,
                   extVars>>

\* ------------------------------------------------------------------------
\* frontend/app.py and backend/app.py analyze_race: local bets only
\* ------------------------------------------------------------------------
\* frontend lines 311-320 (as app.py), backend validate_params
WebRequest ==
    /\ pipeline \in {"frontend", "backend"} /\ pc = "start"
    /\ LET rejected == IF pipeline = "backend" THEN validate_params(request) # "ok"
                       ELSE MissingOrNotInt(request) \/ request.budget \notin VALID_BUDGETS
       IN IF rejected
          THEN /\ Respond(400, FALSE, "params")
               /\ UNCHANGED budget
          ELSE /\ budget' = request.budget
               /\ pc' = "params_ok"
               /\ UNCHANGED respVars
    /\ UNCHANGED <<envVars, analyses, race_info, budget_analysis, python_bets, extVars,
                   resultVars, scenario_out>>

\* scrape_pmu_race, the check of nb_partants, score_horses
WebScrape ==
    /\ pipeline \in {"frontend", "backend"} /\ pc = "params_ok"
    /\ IF ~provider.ok \/ provider.runners = <<>>
       THEN /\ Respond(404, FALSE, "not_found")
            /\ UNCHANGED analyses
       ELSE /\ analyses' = provider.runners
            /\ pc' = "scored"
            /\ UNCHANGED respVars
    /\ UNCHANGED <<envVars, race_info, budget_analysis, budget, python_bets, extVars,
                   resultVars, scenario_out>>

\* generate_bets and the response; the call of Gemini only adds a free text
WebGenerate ==
    /\ pipeline \in {"frontend", "backend"} /\ pc = "scored"
    /\ LET paris == IF pipeline = "frontend" THEN generate_bets_frontend(analyses, budget)
                    ELSE generate_bets_backend(analyses, budget)
       IN /\ bets_recommended' = paris
          /\ total_cost' = SumSeq(MiseOrZero(paris))
    /\ Respond(200, TRUE, "")
    /\ UNCHANGED <<envVars, analyses, race_info, budget_analysis, budget, python_bets,
                   extVars, strategy_selected, scenario_out>>

\* ------------------------------------------------------------------------
\* Specifications
\* ------------------------------------------------------------------------
Next ==
    \/ ApiRaceV8
    \/ FetchV8
    \/ BudgetV8
    \/ LocalV8
    \/ GeminiConfigError
    \/ GeminiAttemptFails
    \/ GeminiAttemptReturns
    \/ ArbitrateV8
    \/ AppRequest
    \/ AppScrape
    \/ AppAttemptFails
    \/ AppAttemptEmpty
    \/ AppAttemptReturns
    \/ AppValidate
    \/ WebRequest
    \/ WebScrape
    \/ WebGenerate

Spec == Init /\ [][Next]_vars

\* The budget analysis on its own: process_race has scored a field and runs
\* calculate_scenario_confidence and calculate_dynamic_budget on it.
InitBudget ==
    /\ pipeline = "v8"
    /\ request = Request("ok", "ok", "ok", BUDGET_MAX_INITIAL)
    /\ \E f \in BudgetFields \cup (Fields \ {<<>>}) :
          /\ provider = Race(TRUE, f)
          /\ analyses = f
    /\ api_key = TRUE
    /\ pc = "scored"
    /\ race_info \in RaceInfos
    /\ budget_analysis = NoBudgetAnalysis
    /\ budget = 0
    /\ python_bets = <<>>
    /\ attempt = 0
    /\ result_json = NoJson
    /\ gemini_bets = PNone
    /\ gemini_error = "none"
    /\ strategy_selected = "python"
    /\ bets_recommended = <<>>
    /\ total_cost = 0
    /\ scenario_out = ""
    /\ http_status = 0
    /\ success = FALSE
    /\ failure = ""
    /\ IdleScore
    /\ IdleCache
    /\ IdleHistory
    /\ IdleFetch

NextBudget == BudgetV8 \/ LocalV8

SpecBudget == InitBudget /\ [][NextBudget]_vars

\* The scorers on their own: one participant and its twin with more wins
\* are scored by the scorer of the pipeline.
InitScore ==
    /\ pipeline \in {"v8", "app", "frontend"}
    /\ request = Request("ok", "ok", "ok", BUDGET_MAX_INITIAL)
    /\ provider = Race(FALSE, <<>>)
    /\ api_key = TRUE
    /\ pc = "scoring"
    /\ Untouched
    /\ cheval \in Chevaux
    /\ more_wins \in (cheval.nb_victoires + 1)..(MaxWins + 1)
    /\ score_total = -1
    /\ score_twin = -1
    /\ IdleCache
    /\ IdleHistory
    /\ IdleFetch

ScoreHorse ==
    /\ pc = "scoring"
    /\ score_total' = ScoreOf(pipeline, cheval)
    /\ pc' = "horse_scored"
    /\ UNCHANGED <<reqVars, workVars, cacheVars, histVars, fetchVars, cheval, more_wins, score_twin>>

ScoreTwin ==
    /\ pc = "horse_scored"
    /\ score_twin' = ScoreOf(pipeline, [cheval EXCEPT !.nb_victoires = more_wins])
    /\ pc' = "twin_scored"
    /\ UNCHANGED <<reqVars, workVars, cacheVars, histVars, fetchVars, cheval, more_wins, score_total>>

NextScore == ScoreHorse \/ ScoreTwin

SpecScore == InitScore /\ [][NextScore]_vars

\* ------------------------------------------------------------------------
\* The caches on their own: time passes, the provider publishes new data,
\* the cached function is called for a key
\* ------------------------------------------------------------------------
InitCache ==
    /\ pipeline = "v8"
    /\ request = Request("ok", "ok", "ok", BUDGET_MAX_INITIAL)
    /\ provider = Race(FALSE, <<>>)
    /\ api_key = TRUE
    /\ pc = "caching"
    /\ Untouched
    /\ IdleScore
    /\ cache_impl \in {"timed_cache", "scraper", "frontend"}
    /\ now = 0
    /\ upstream = 0
    /\ cache = [k \in CacheKeys |-> NoEntry]
    /\ stored_at = [k \in CacheKeys |-> 0]
    /\ fetches = 0 /\ requests = 0 /\ req_key = "" /\ served = NoData
    /\ IdleHistory
    /\ IdleFetch

Tick ==
    /\ pc = "caching" /\ now < MaxClock
    /\ now' = now + ClockStep
    /\ UNCHANGED <<reqVars, workVars, scoreVars, histVars, fetchVars, pc, cache_impl, upstream, cache,
                   stored_at, fetches, requests, req_key, served>>

Publish ==
    /\ pc = "caching" /\ upstream < MaxVersion
    /\ upstream' = upstream + 1
    /\ UNCHANGED <<reqVars, workVars, scoreVars, histVars, fetchVars, pc, cache_impl, now, cache,
                   stored_at, fetches, requests, req_key, served>>

\* app_v8.py lines 358-391: the result of the call is stored whatever it is,
\* with the time read before the call
TimedCacheCall ==
    /\ cache_impl = "timed_cache" /\ requests < MaxRequests
    /\ \E k \in CacheKeys, ok \in BOOLEAN :
          /\ req_key' = k
          /\ IF Fresh(cache[k], now)
             THEN /\ served' = cache[k].data
                  /\ UNCHANGED <<cache, stored_at, fetches>>
             ELSE LET result == IF ok THEN upstream ELSE NoData
                  IN /\ cache' = [cache EXCEPT ![k] = Entry(result, now)]
                     /\ stored_at' = [stored_at EXCEPT ![k] = now]
                     /\ fetches' = fetches + 1
                     /\ served' = result
    /\ requests' = requests + 1
    /\ UNCHANGED <<reqVars, workVars, scoreVars, histVars, fetchVars, pc, cache_impl, now, upstream>>

\* core/scraper.py lines 44-116: only a race that was fetched is stored
ScraperCall ==
    /\ cache_impl = "scraper" /\ requests < MaxRequests
    /\ \E k \in CacheKeys, ok \in BOOLEAN :
          /\ req_key' = k
          /\ IF Fresh(cache[k], now)
             THEN /\ served' = cache[k].data
                  /\ UNCHANGED <<cache, stored_at, fetches>>
             ELSE /\ fetches' = fetches + 1
                  /\ IF ok
                     THEN /\ cache' = [cache EXCEPT ![k] = Entry(upstream, now)]
                          /\ stored_at' = [stored_at EXCEPT ![k] = now]
                          /\ served' = upstream
                     ELSE /\ served' = NoData
                          /\ UNCHANGED <<cache, stored_at>>
    /\ requests' = requests + 1
    /\ UNCHANGED <<reqVars, workVars, scoreVars, histVars, fetchVars, pc, cache_impl, now, upstream>>

\* frontend/app.py lines 41-98: the dict keeps the data alone, no time
FrontendCall ==
    /\ cache_impl = "frontend" /\ requests < MaxRequests
    /\ \E k \in CacheKeys, ok \in BOOLEAN :
          /\ req_key' = k
          /\ IF InCache(cache[k])
             THEN /\ served' = cache[k].data
                  /\ UNCHANGED <<cache, stored_at, fetches>>
             ELSE /\ fetches' = fetches + 1
                  /\ IF ok
                     THEN /\ cache' = [cache EXCEPT ![k] = Entry(upstream, 0)]
                          /\ stored_at' = [stored_at EXCEPT ![k] = now]
                          /\ served' = upstream
                     ELSE /\ served' = NoData
                          /\ UNCHANGED <<cache, stored_at>>
    /\ requests' = requests + 1
    /\ UNCHANGED <<reqVars, workVars, scoreVars, histVars, fetchVars, pc, cache_impl, now, upstream>>

NextCache == Tick \/ Publish \/ TimedCacheCall \/ ScraperCall \/ FrontendCall

SpecCache == InitCache /\ [][NextCache]_vars

\* ------------------------------------------------------------------------
\* The history file under several worker processes
\* ------------------------------------------------------------------------
InitHistory ==
    /\ pipeline = "app"
    /\ request = Request("ok", "ok", "ok", 500)
    /\ provider = Race(FALSE, <<>>)
    /\ api_key = TRUE
    /\ pc = "history"
    /\ Untouched
    /\ IdleScore
    /\ IdleCache
    /\ history_file \in {NoFile, [exists |-> TRUE, data |-> <<>>],
                         [exists |-> TRUE, data |-> <<[worker |-> 0, n |-> 1]>>]}
    /\ history_store = [w \in Workers |-> <<>>]
    /\ worker_pc = [w \in Workers |-> "down"]
    /\ IdleFetch

\* app.py line 123, at the import of the module by the worker
WorkerStart(w) ==
    /\ pc = "history" /\ worker_pc[w] = "down"
    /\ history_store' = [history_store EXCEPT ![w] = load_history(history_file)]
    /\ worker_pc' = [worker_pc EXCEPT ![w] = "idle"]
    /\ UNCHANGED <<reqVars, workVars, scoreVars, cacheVars, fetchVars, pc, history_file>>

\* analyze_race lines 478-490, at the end of a successful analysis
AppendEntry(w) ==
    /\ pc = "history" /\ worker_pc[w] = "idle"
    /\ Len(OwnEntries(history_store[w], w)) < MaxAnalyses
    /\ history_store' = [history_store EXCEPT
                            ![w] = Append(@, history_entry(history_store[w], w))]
    /\ worker_pc' = [worker_pc EXCEPT ![w] = "appended"]
    /\ UNCHANGED <<reqVars, workVars, scoreVars, cacheVars, fetchVars, pc, history_file>>

\* analyze_race line 493
SaveHistory(w) ==
    /\ pc = "history" /\ worker_pc[w] = "appended"
    /\ history_file' = save_history(history_store[w], history_file)
    /\ worker_pc' = [worker_pc EXCEPT ![w] = "idle"]
    /\ UNCHANGED <<reqVars, workVars, scoreVars, cacheVars, fetchVars, pc, history_store>>

NextHistory == \E w \in Workers : WorkerStart(w) \/ AppendEntry(w) \/ SaveHistory(w)

SpecHistory == InitHistory /\ [][NextHistory]_vars

\* ------------------------------------------------------------------------
\* One fetch of the provider, whatever the provider answers to each GET
\* ------------------------------------------------------------------------
InitFetch ==
    /\ pipeline = "app"
    /\ request = Request("ok", "ok", "ok", 500)
    /\ provider = Race(FALSE, <<>>)
    /\ api_key = TRUE
    /\ pc = "fetching"
    /\ Untouched
    /\ IdleScore
    /\ IdleCache
    /\ IdleHistory
    /\ fetch_impl \in {"scraper", "scraper_v2", "backend"}
    /\ retry_count \in 0..MaxRetryCount
    /\ fetch_impl = "backend" => retry_count = BACKEND_MAX_ATTEMPTS - 1
    /\ answers = <<>>
    /\ sleeps = 0
    /\ fetch_result = "pending"

\* one iteration of the loop: the GET, the handling of its answer, the
\* sleep before the next iteration
SessionGet ==
    /\ pc = "fetching" /\ fetch_result = "pending"
    /\ Len(answers) < retry_count + 1
    /\ \E status \in Statuses :
          LET o == FetchOutcome(fetch_impl, status, Len(answers), retry_count)
          IN /\ answers' = Append(answers, status)
             /\ fetch_result' = o.result
             /\ sleeps' = IF o.slept THEN sleeps + 1 ELSE sleeps
    /\ UNCHANGED <<reqVars, workVars, scoreVars, cacheVars, histVars, pc, fetch_impl,
                   retry_count>>

\* core/scraper.py line 171: `return None` after the loop
LoopExhausted ==
    /\ pc = "fetching" /\ fetch_result = "pending"
    /\ Len(answers) >= retry_count + 1
    /\ fetch_result' = "none"
    /\ UNCHANGED <<reqVars, workVars, scoreVars, cacheVars, histVars, pc, fetch_impl,
                   retry_count, answers, sleeps>>

NextFetch == SessionGet \/ LoopExhausted

SpecFetch == InitFetch /\ [][NextFetch]_vars

\* ------------------------------------------------------------------------
\* Vocabulary of the properties
\* ------------------------------------------------------------------------
\* the stake of a returned recommendation: 'mise' (Gemini dict) or 'cost'
Stake(b) == IF b.mise.k = "num" THEN b.mise.n
            ELSE IF b.cost.k = "num" THEN b.cost.n ELSE 0

TotalStake(bets) == SumSeq([i \in 1..Len(bets) |-> Stake(bets[i])])

\* the request has answered with a recommendation set
Returned == pc = "done" /\ success

\* the budget ceiling of the request
Ceiling == IF pipeline = "v8" THEN BUDGET_MAX_INITIAL ELSE budget

\* the recommendations of the model output, when it has a list of them
ExtBets == IF result_json.paris.k = "list" THEN result_json.paris.l ELSE <<>>

\* the set the local generator produced, as process_race returns it
LocalSet == PythonDicts(python_bets)

LocalSelected == strategy_selected = "python" /\ bets_recommended = LocalSet

\* the model output reports a confidence below the threshold of 6
LowConfidence ==
    result_json.dict /\ result_json.conf.k = "num" /\ result_json.conf.n < KILL_SWITCH_V8

\* the model output is a JSON object whose values have the types of the
\* requested schema: a list of bet objects with numeric stakes, returns and
\* runner numbers, and a numeric confidence
TypedResponse ==
    /\ result_json.dict
    /\ result_json.paris.k = "list"
    /\ result_json.conf.k = "num"
    /\ \A i \in 1..Len(result_json.paris.l) :
          LET b == result_json.paris.l[i]
          IN /\ b.obj /\ b.mise.k = "num" /\ b.roi_attendu.k = "num"
             /\ b.chevaux.k = "list"
             /\ \A j \in 1..Len(b.chevaux.l) : b.chevaux.l[j].k = "num"

\* the model output was received and reports a confidence of at least 6
Trusted ==
    /\ result_json.dict
    /\ Get(result_json.conf, 10).k = "num"
    /\ Get(result_json.conf, 10).n >= KILL_SWITCH_V8

\* a recommendation that meets every structural rule of the specification
WellFormed(b, nb_partants) ==
    /\ b.obj
    /\ b.type \in VALID_BET_TYPES
    /\ b.chevaux.k = "list"
    /\ Len(b.chevaux.l) = expected_lengths(b.type)
    /\ \A i \in 1..Len(b.chevaux.l) :
          b.chevaux.l[i].k = "num" /\ b.chevaux.l[i].n \in 1..nb_partants
    /\ b.mise.k = "num" /\ b.mise.n > 0
    /\ b.roi_attendu.k = "num"

StructurallyValid(bets, nb_partants) ==
    bets # <<>> /\ \A i \in 1..Len(bets) : WellFormed(bets[i], nb_partants)

\* every stake multiplied by budget / total and rounded to the cent
ScaledTo(bets, budget_max) ==
    [i \in 1..Len(bets) |->
        [bets[i] EXCEPT !.mise = Num(RoundDiv(bets[i].mise.n * budget_max,
                                              SumSeq(MiseOrZero(bets))))]]

\* ------------------------------------------------------------------------
\* Properties
\* ------------------------------------------------------------------------

\* C1: every returned recommendation set has a total stake of at most the
\* budget ceiling plus 0.50, whatever the model output contains and
\* whichever source the set comes from.
C1_TotalStakeWithinCeiling ==
    (Returned /\ (strategy_selected = "gemini" => TypedResponse))
        => TotalStake(bets_recommended) <= Ceiling + TOLERANCE

\* C2: whenever the external request ended in an error (API failure,
\* malformed output, low confidence, failed validation), the result of
\* process_race is the local set, unchanged, with strategy "python".
C2_FallbackOnAnyError ==
    (/\ pipeline = "v8" /\ Returned
     /\ result_json.dict => TypedResponse
     /\ gemini_error # "none" \/ LowConfidence)
        => LocalSelected

\* C3: a model output whose confiance_globale is below 6 never contributes a
\* recommendation: the local set is returned.
C3_LowConfidenceDiscarded ==
    (pipeline = "v8" /\ Returned /\ TypedResponse /\ LowConfidence /\ ExtBets # <<>>)
        => LocalSelected

\* C4: a model output holding a bet type outside the whitelist is rejected as
\* a whole and the request answers with the local set.
HasForeignType == \E i \in 1..Len(ExtBets) : ExtBets[i].obj /\ ExtBets[i].type \notin VALID_BET_TYPES

C4_ForeignTypeGivesLocalSet ==
    (pc = "done" /\ TypedResponse /\ Trusted /\ HasForeignType)
        => (Returned /\ strategy_selected = "python" /\ bets_recommended = LocalSet)

\* C5: a structurally valid external set whose total stake is above
\* budget_recommended + 0.50 is scaled by budget_recommended / total and then
\* compared on expected return, so it is selected, scaled, when its expected
\* return beats the local one by the margin.
C5_OverBudgetSetIsScaled ==
    (/\ pipeline = "v8" /\ Returned /\ Trusted
     /\ StructurallyValid(ExtBets, Len(analyses))
     /\ budget > 0
     /\ SumSeq(MiseOrZero(ExtBets)) > budget + TOLERANCE
     /\ GeminiBetter(SumSeq(RoiAttendu(ExtBets)), SumSeq(RoiExpected(python_bets))))
        => (strategy_selected = "gemini" /\ bets_recommended = ScaledTo(ExtBets, budget))

\* C6: when the budget repair of the response validator has scaled the bets,
\* no stake was increased and the new total is within budget + 0.50.
RepairScaled ==
    /\ pipeline = "app" /\ Returned /\ TypedResponse
    /\ _validate_budget(result_json, budget) = "fail"
    /\ bets_recommended # <<>>
    /\ SumSeq(MiseOrZero(ExtBets)) > 0

C6_RepairNeverIncreases ==
    RepairScaled =>
        /\ \A i \in 1..Len(bets_recommended) : Stake(bets_recommended[i]) <= Stake(ExtBets[i])
        /\ TotalStake(bets_recommended) <= budget + TOLERANCE

C8_ArbiterNeverRaises ==
    (/\ pipeline = "v8" /\ pc = "done"
     /\ result_json.dict /\ result_json.paris.k = "list"
     /\ result_json.conf.k = "num" /\ result_json.conf.n >= KILL_SWITCH_V8)
        => (Returned /\ failure # "arbiter_exception")

\* C9: a failure of the external model never makes the request fail.
ExternalFailed == gemini_error # "none" \/ failure \in {"gemini", "validation"}

C9_ExternalFailureRecovered ==
    (pc = "done" /\ ExternalFailed) => (success /\ http_status = 200)

\* C10: a model output holding a bet whose number of runners differs from the
\* count its type requires is rejected and the local set is returned.
HasWrongLength ==
    \E i \in 1..Len(ExtBets) :
        /\ ExtBets[i].obj /\ ExtBets[i].type \in VALID_BET_TYPES
        /\ ExtBets[i].chevaux.k = "list"
        /\ Len(ExtBets[i].chevaux.l) # expected_lengths(ExtBets[i].type)

C10_WrongLengthRejected ==
    (pipeline = "v8" /\ Returned /\ TypedResponse /\ Trusted /\ HasWrongLength)
        => LocalSelected

\* C11: a model output naming a runner number that no runner of the race
\* carries (scratched horses removed) is rejected and the local set is returned.
RunnerNumbers == {analyses[i].numero : i \in 1..Len(analyses)}

HasAbsentRunner ==
    \E i \in 1..Len(ExtBets) :
        /\ ExtBets[i].obj /\ ExtBets[i].chevaux.k = "list"
        /\ \E j \in 1..Len(ExtBets[i].chevaux.l) :
              ExtBets[i].chevaux.l[j].n \notin RunnerNumbers

C11_AbsentRunnerRejected ==
    (pipeline = "v8" /\ Returned /\ TypedResponse /\ Trusted /\ HasAbsentRunner)
        => LocalSelected

\* C12: a model output holding a stake of zero or less is rejected, and no
\* returned recommendation has a stake of zero or less.
HasNonPositiveStake == \E i \in 1..Len(ExtBets) : ExtBets[i].mise.n <= 0

C12_NoNonPositiveStake ==
    (Returned /\ TypedResponse) =>
        /\ \A i \in 1..Len(bets_recommended) : Stake(bets_recommended[i]) > 0
        /\ HasNonPositiveStake => bets_recommended # ExtBets

\* C13: a race the provider serves without any runner (none declared, or all
\* scratched) is answered with 404, before scoring, budget or arbitration.
ZeroRunners == Served(request) /\ provider.ok /\ provider.runners = <<>>

C13_ZeroRunnersNotFound ==
    (pc = "done" /\ ZeroRunners) =>
        /\ http_status = 404
        /\ budget_analysis = NoBudgetAnalysis /\ result_json = NoJson

\* C14: the set of the local generator has a total stake of at most the
\* budget it was given, every candidate bet being taken whole or left out.
LocalGenerated ==
    \/ pipeline = "v8" /\ pc \in {"local_done", "ext_done", "done"} /\ budget_analysis # NoBudgetAnalysis
    \/ pipeline \in {"frontend", "backend"} /\ Returned

\* the set the local generator has produced, as dicts
GeneratedSet == IF pipeline = "v8" THEN LocalSet ELSE bets_recommended

\* the candidate bets the generator chose from, as dicts
CandidateSet == IF pipeline = "v8" THEN PythonDicts(Candidates(analyses)) ELSE bets_recommended

C14_LocalSetWithinBudget ==
    LocalGenerated =>
        /\ TotalStake(GeneratedSet) <= budget
        /\ \A i \in 1..Len(GeneratedSet) :
              \E j \in 1..Len(CandidateSet) : GeneratedSet[i] = CandidateSet[j]

\* C14 witness: the optimizer left out a candidate that did not fit
C14_CandidateDropped ==
    /\ pipeline = "v8" /\ pc = "done" /\ Returned
    /\ python_bets # <<>>
    /\ Len(python_bets) < Len(Candidates(analyses))
    /\ TotalStake(LocalSet) <= budget

\* C15: for a race with at least one runner, a positive budget and a scenario
\* other than NON_JOUABLE, the local generator returns at least one bet.
C15_LocalSetNonEmpty ==
    (LocalGenerated /\ Len(analyses) >= 1 /\ budget > 0 /\ scenario_out # "NON_JOUABLE")
        => GeneratedSet # <<>>

\* C16: the set returned for a race is empty only when its scenario is
\* NON_JOUABLE or its budget is 0.
C16_EmptyOnlyWhenUnplayable ==
    (Returned /\ bets_recommended = <<>>) => (scenario_out = "NON_JOUABLE" \/ budget = 0)

\* C17: every bet in the set of the local generator names exactly as many
\* runners as its type requires.
C17_LocalRunnerCounts ==
    (pipeline = "v8" /\ LocalGenerated) =>
        \A i \in 1..Len(LocalSet) :
            Len(LocalSet[i].chevaux.l) = expected_lengths(LocalSet[i].type)

\* C18: the budget the analysis recommends is at least 0 and at most the
\* ceiling of 20, whatever the scored field and the race data.
BudgetComputed == pipeline = "v8" /\ pc \in {"budgeted", "local_done"}

C18_BudgetWithinCeiling ==
    BudgetComputed =>
        /\ budget = budget_analysis.budget_recommended
        /\ 0 <= budget /\ budget <= BUDGET_MAX_INITIAL

\* C18 witness: the points of the race map to more than the ceiling and the
\* recommended budget is the ceiling
C18_ClampedAtCeiling ==
    /\ BudgetComputed
    /\ RoundToHalf(budget_analysis.total_points) > BUDGET_MAX_INITIAL
    /\ budget = BUDGET_MAX_INITIAL

\* C19: when the amount mapped from the points of the race is below the
\* playable minimum of 5, the recommended budget is 0 with the lowest
\* confidence label, and the local generator is given a budget of 0.
BelowPlayable ==
    BudgetComputed /\ RoundToHalf(budget_analysis.total_points) < MIN_PLAYABLE

C19_BelowMinimumIsZero ==
    BelowPlayable =>
        /\ budget_analysis.budget_recommended = 0
        /\ budget_analysis.confidence = "TRES_FAIBLE"
        /\ budget = 0

\* C20: a /race request whose date, meeting, race or budget is missing or
\* invalid is answered with HTTP 400.
InvalidRequest ==
    \/ request.date # "ok" \/ request.r # "ok" \/ request.c # "ok"
    \/ pipeline # "v8" /\ request.budget \notin VALID_BUDGETS

C20_InvalidRequestIs400 ==
    (pc = "done" /\ InvalidRequest) => http_status = 400

\* C21: the score a scorer gives a runner is in [0, 100], whatever the data
\* of the runner.
C21_ScoreInRange ==
    score_total # -1 => (0 <= score_total /\ score_total <= 100)

\* C22: of two runners equal in everything but nombreVictoires, the one with
\* more wins never has the lower score.
C22_MoreWinsNeverLower ==
    pc = "twin_scored" => score_twin >= score_total

\* C22 witness: the twin with more wins has the strictly higher score
C22_MoreWinsHigher ==
    /\ pc = "twin_scored" /\ more_wins > cheval.nb_victoires
    /\ score_twin > score_total

\* C23: the external model is called at most 3 times for a request; after
\* the third failed attempt the retry loop is over and the failure is handed
\* on as an error of the external model.
RetryLoopRunning ==
    \/ pipeline = "v8" /\ pc = "local_done"
    \/ pipeline = "app" /\ pc = "scored"

\* the step in which the third attempt of the loop fails
ThirdAttemptFails ==
    /\ attempt = MAX_ATTEMPTS - 1 /\ attempt' = MAX_ATTEMPTS
    /\ result_json' = result_json
    /\ pipeline = "app" => (pc' = "done" /\ failure' = "exception")

C23_AtMostThreeCalls ==
    [][/\ attempt' <= MAX_ATTEMPTS
       /\ attempt' = MAX_ATTEMPTS => ~RetryLoopRunning'
       /\ ThirdAttemptFails => gemini_error' = "api"]_vars

\* C23 witness: three attempts have failed and the request has gone on
C23_ThirdAttemptFailed ==
    /\ attempt = MAX_ATTEMPTS /\ result_json = NoJson /\ gemini_error = "api"
    /\ pc = "done"

\* a bet of the CADENAS template: the simple on the favourite at 25 % of
\* expected return, the couple of the first two runners, the multi at 20 %
CadenasBet(bet) ==
    \/ bet.type = "COUPLE_GAGNANT"
    \/ bet.type = "SIMPLE_GAGNANT" /\ bet.roi_expected = 25 /\ bet.chevaux = <<analyses[1].numero>>
    \/ bet.type = "MULTI_EN_4" /\ bet.roi_expected = 20

CadenasApplied ==
    /\ pipeline = "v8" /\ pc = "local_done" /\ analyses # <<>>
    /\ \E i \in 1..Len(python_bets) : CadenasBet(python_bets[i])

\* C24: the local generator applies the dominant-favourite template only to
\* a field whose top score is at least 85 and whose gap to the second score
\* is at least 10
C24_CadenasNeedsGap ==
    CadenasApplied =>
        /\ analyses[1].score >= SCORE_CADENAS
        /\ Len(analyses) >= 2 => analyses[1].score - analyses[2].score >= 10

\* the request has passed the input checks and its field is scored
Admitted ==
    /\ pipeline \in {"v8", "app"}
    /\ pc \in {"scored", "budgeted", "local_done", "ext_done"}
    /\ analyses # <<>>

\* C25: the external model is called only once the local set is computed,
\* and an admitted request is answered by the arbitration step alone, which
\* follows the external attempt
C25_LocalFirstArbiterLast ==
    [][/\ attempt' > attempt => pc = "local_done"
       /\ (Admitted /\ pc' = "done") => pc = "ext_done"]_vars

\* C26: the budget_used reported with a result of process_race is the sum
\* of the stakes of the recommendations it returns, whether the external or
\* the local set is selected
C26_BudgetUsedIsSumOfStakes ==
    (pipeline = "v8" /\ Returned /\ (strategy_selected = "gemini" => TypedResponse))
        => total_cost = TotalStake(bets_recommended)

\* a call of the cached function for key k
CacheRequest(k) == requests' = requests + 1 /\ req_key' = k

\* C27: a cached response is served only while its age is below the TTL;
\* at an age of the TTL or more the call fetches, and the data it fetched
\* replaces the entry
C27_CacheServedOnlyWhileFresh ==
    [][\A k \in CacheKeys :
          (CacheRequest(k) /\ cache[k].present) =>
              /\ fetches' = fetches => now - stored_at[k] < CACHE_TTL
              /\ now - stored_at[k] >= CACHE_TTL =>
                    /\ fetches' = fetches + 1
                    /\ served' # NoData =>
                          (cache'[k].data = upstream /\ stored_at'[k] = now)]_vars

IsIn(e, history) == \E i \in 1..Len(history) : history[i] = e

\* worker w rewrites the file
Saves(w) == worker_pc[w] = "appended" /\ worker_pc'[w] = "idle"

\* C28: the history file is not safe with more than one worker: a save
\* leaves in the file the list of the saving worker alone, so the file
\* written last can lack the record the other worker saved
C28_SaveWritesOwnListOnly ==
    [][\A w \in Workers : Saves(w) => history_file'.data = history_store[w]]_vars

\* C28 witness: both workers have saved an analysis and the file lacks the
\* record of worker 1
C28_RecordLost ==
    /\ \A w \in Workers : worker_pc[w] = "idle" /\ OwnEntries(history_store[w], w) # <<>>
    /\ ~IsIn([worker |-> 1, n |-> 1], history_file.data)

\* C29: an answer of 404 ends the fetch with no data and is never followed
\* by another GET; a provider that answers 404 is asked exactly once
C29_NotFoundNeverRetried ==
    \A i \in 1..Len(answers) :
        answers[i] = "404" => (i = Len(answers) /\ fetch_result = "none")

CoreFetch == fetch_impl \in {"scraper", "scraper_v2"}

Succeeded(i) == answers[i] = "200"

\* C30: on 503 _fetch_json sleeps and tries again while a retry is left; it
\* returns the JSON of the first successful answer, makes at most
\* retry_count + 1 GETs, and returns None when no GET succeeded
C30_UnavailableIsRetried ==
    CoreFetch =>
        /\ Len(answers) <= retry_count + 1
        /\ \A i \in 1..Len(answers) :
              /\ Succeeded(i) => (i = Len(answers) /\ fetch_result = "json")
              /\ (answers[i] = "503" /\ i <= retry_count) =>
                    (sleeps >= 1 /\ (i = Len(answers) => fetch_result = "pending"))
        /\ (fetch_result # "pending" /\ ~\E i \in 1..Len(answers) : Succeeded(i))
              => fetch_result = "none"

\* C30 witness: a 503 then a success, with one retry allowed
C30_RetriedThenSucceeded ==
    /\ CoreFetch /\ retry_count = 1
    /\ answers = <<"503", "200">> /\ fetch_result = "json" /\ sleeps = 1

====
